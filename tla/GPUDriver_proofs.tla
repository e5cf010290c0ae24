--------------------------- MODULE GPUDriver_proofs ---------------------------
(***************************************************************************)
(* Proofs about GPUDriver.tla: the driver's phases of a migration, the     *)
(* counters of acknowledgements that separate them, and what they promise: *)
(* every GPU stops and restarts in order, nobody reaches a page on its way *)
(* and no write is lost.                                                   *)
(***************************************************************************)
EXTENDS GPUDriver, CommandProcessor_proofs

-----------------------------------------------------------------------------
(* What the driver sends. *)

Plain == {"launch", "flush", "copy", "drain", "gpuRestart", "rdmaRestart"}

(* A command to each of a set of GPUs is counted once for each. *)
LEMMA ToEachIs ==
    \A t \in Plain, G \in SUBSET GPU :
        /\ ToEach(t, G) \in Seq(Command)
        /\ \A k : \A h \in GPU : Number(ToEach(t, G), CommandFor(k, h)) = One(k = t /\ h \in G)
        /\ \A i \in DOMAIN ToEach(t, G) : ToEach(t, G)[i].type = t
  <1> SUFFICES ASSUME NEW t \in Plain, NEW G \in SUBSET GPU
               PROVE  /\ ToEach(t, G) \in Seq(Command)
                      /\ \A k : \A h \in GPU : Number(ToEach(t, G), CommandFor(k, h)) = One(k = t /\ h \in G)
                      /\ \A i \in DOMAIN ToEach(t, G) : ToEach(t, G)[i].type = t
    OBVIOUS
  <1>1. IsFiniteSet(G)
    BY DriverAssumption, FS_Subset
  <1> DEFINE n == Cardinality(G)
             f == SetToSeq(G)
             q == ToEach(t, G)
  <1>2. /\ n \in Nat /\ f \in [1..n -> G]
        /\ \A i, j \in 1..n : f[i] = f[j] => i = j
        /\ \A x \in G : \E i \in 1..n : f[i] = x
    BY <1>1, SetToSeqAt
  <1>3. q = [i \in 1..n |-> [type |-> t, gpu |-> f[i]]]
    BY DEF ToEach
  <1> HIDE DEF n, f, q
  <1>4. \A i \in 1..n : [type |-> t, gpu |-> f[i]] \in Command
    BY <1>2 DEF Command, Plain
  <1>5. q \in [1..n -> Command]
    BY <1>3, <1>4
  <1>6. q \in Seq(Command) /\ DOMAIN q = 1..n
    BY <1>2, <1>5
  <1>7. \A i \in 1..n : q[i].type = t /\ q[i].gpu = f[i] /\ q[i] \in Command
    BY <1>3, <1>5
  <1>8. ASSUME NEW k, NEW h \in GPU PROVE Number(q, CommandFor(k, h)) = One(k = t /\ h \in G)
    <2>1. CASE k = t /\ h \in G
      <3>1. PICK i \in 1..n : f[i] = h
        BY <1>2, <2>1
      <3>2. q[i] \in CommandFor(k, h)
        BY <1>7, <2>1, <3>1 DEF CommandFor
      <3>3. \A j \in 1..n : q[j] \in CommandFor(k, h) => j = i
        BY <1>2, <1>7, <3>1 DEF CommandFor
      <3>4. Number(q, CommandFor(k, h)) = 1
        BY <1>6, <3>2, <3>3, NumberOne
      <3> QED BY <2>1, <3>4 DEF One
    <2>2. CASE ~(k = t /\ h \in G)
      <3>1. \A j \in 1..n : q[j] \notin CommandFor(k, h)
        BY <1>2, <1>7, <2>2 DEF CommandFor
      <3>2. Number(q, CommandFor(k, h)) = 0
        BY <1>6, <3>1, NumberNone
      <3> QED BY <2>2, <3>2 DEF One
    <2> QED BY <2>1, <2>2
  <1> QED BY <1>6, <1>7, <1>8 DEF q

(* A request's shootdowns: one for each accessing GPU, with all its pages. *)
LEMMA ShootdownsIs ==
    \A r \in PageMigrationReq :
        /\ Shootdowns(r) \in Seq(Command)
        /\ \A k : \A h \in GPU : Number(Shootdowns(r), CommandFor(k, h)) = One(k = "shootdown" /\ h \in r.accessing)
        /\ \A i \in DOMAIN Shootdowns(r) : Shootdowns(r)[i].type = "shootdown" /\ Shootdowns(r)[i].pages = r.pages
  <1> SUFFICES ASSUME NEW r \in PageMigrationReq
               PROVE  /\ Shootdowns(r) \in Seq(Command)
                      /\ \A k : \A h \in GPU :
                            Number(Shootdowns(r), CommandFor(k, h)) = One(k = "shootdown" /\ h \in r.accessing)
                      /\ \A i \in DOMAIN Shootdowns(r) :
                            Shootdowns(r)[i].type = "shootdown" /\ Shootdowns(r)[i].pages = r.pages
    OBVIOUS
  <1> DEFINE G == r.accessing
             n == Cardinality(G)
             f == SetToSeq(G)
             q == Shootdowns(r)
  <1>1. G \subseteq GPU /\ r.pages \in SUBSET Page
    BY DEF PageMigrationReq
  <1>2. IsFiniteSet(G)
    BY <1>1, DriverAssumption, FS_Subset
  <1>3. /\ n \in Nat /\ f \in [1..n -> G]
        /\ \A i, j \in 1..n : f[i] = f[j] => i = j
        /\ \A x \in G : \E i \in 1..n : f[i] = x
    BY <1>2, SetToSeqAt
  <1>4. q = [i \in DOMAIN f |-> [type |-> "shootdown", gpu |-> f[i], pages |-> r.pages]]
    BY DEF Shootdowns
  <1> HIDE DEF n, f, q, G
  <1>5. DOMAIN f = 1..n
    BY <1>3
  <1>6. \A i \in 1..n : [type |-> "shootdown", gpu |-> f[i], pages |-> r.pages] \in Command
    BY <1>1, <1>3 DEF Command
  <1>7. q \in [1..n -> Command]
    BY <1>4, <1>5, <1>6
  <1>8. q \in Seq(Command) /\ DOMAIN q = 1..n
    BY <1>3, <1>7
  <1>9. \A i \in 1..n : q[i].type = "shootdown" /\ q[i].gpu = f[i] /\ q[i] \in Command /\ q[i].pages = r.pages
    BY <1>4, <1>5, <1>7
  <1>10. ASSUME NEW k, NEW h \in GPU PROVE Number(q, CommandFor(k, h)) = One(k = "shootdown" /\ h \in G)
    <2>1. CASE k = "shootdown" /\ h \in G
      <3>1. PICK i \in 1..n : f[i] = h
        BY <1>3, <2>1
      <3>2. q[i] \in CommandFor(k, h)
        BY <1>9, <2>1, <3>1 DEF CommandFor
      <3>3. \A j \in 1..n : q[j] \in CommandFor(k, h) => j = i
        BY <1>3, <1>9, <3>1 DEF CommandFor
      <3>4. Number(q, CommandFor(k, h)) = 1
        BY <1>8, <3>2, <3>3, NumberOne
      <3> QED BY <2>1, <3>4 DEF One
    <2>2. CASE ~(k = "shootdown" /\ h \in G)
      <3>1. \A j \in 1..n : q[j] \notin CommandFor(k, h)
        BY <1>3, <1>9, <2>2 DEF CommandFor
      <3>2. Number(q, CommandFor(k, h)) = 0
        BY <1>8, <3>1, NumberNone
      <3> QED BY <2>2, <3>2 DEF One
    <2> QED BY <2>1, <2>2
  <1> QED BY <1>8, <1>9, <1>10 DEF q, G

(* The messages that move the pages of a request. *)
MoveMsg(r) == [type : {"migrate"}, gpu : {r.to}, page : r.pages, from : {r.host}]

(* A request's migrations: as many as it has pages, each of the request. *)
LEMMA MigrationsIs ==
    \A r \in PageMigrationReq :
        /\ Migrations(r) \in Seq(MoveMsg(r)) /\ MoveMsg(r) \subseteq Command
        /\ Len(Migrations(r)) = Cardinality(r.pages) /\ Cardinality(r.pages) \in Nat
  <1> SUFFICES ASSUME NEW r \in PageMigrationReq
               PROVE  /\ Migrations(r) \in Seq(MoveMsg(r)) /\ MoveMsg(r) \subseteq Command
                      /\ Len(Migrations(r)) = Cardinality(r.pages) /\ Cardinality(r.pages) \in Nat
    OBVIOUS
  <1> DEFINE G == r.pages
             n == Cardinality(G)
             f == SetToSeq(G)
             q == Migrations(r)
  <1>1. G \subseteq Page /\ r.to \in GPU /\ r.host \in GPU
    BY DEF PageMigrationReq
  <1>2. IsFiniteSet(G)
    BY <1>1, DriverAssumption, FS_Subset
  <1>3. n \in Nat /\ f \in [1..n -> G]
    BY <1>2, SetToSeqAt
  <1>4. q = [i \in DOMAIN f |-> [type |-> "migrate", gpu |-> r.to, page |-> f[i], from |-> r.host]]
    BY DEF Migrations
  <1>5. MoveMsg(r) \subseteq Command
    BY <1>1 DEF MoveMsg, Command
  <1> HIDE DEF n, f, q
  <1>6. DOMAIN f = 1..n
    BY <1>3
  <1>7. \A i \in 1..n : [type |-> "migrate", gpu |-> r.to, page |-> f[i], from |-> r.host] \in MoveMsg(r)
    BY <1>3 DEF MoveMsg
  <1>8. q \in [1..n -> MoveMsg(r)]
    BY <1>4, <1>6, <1>7
  <1>9. q \in Seq(MoveMsg(r)) /\ Len(q) = n
    BY <1>3, <1>8
  <1> QED BY <1>3, <1>5, <1>9 DEF q, n

(* The list of requests grows. *)
LEMMA BeforeGrown ==
    ASSUME Typed, NEW s \in Seq(Command), driver'.requestsToSend = driver.requestsToSend \o s, toDriver' = toDriver
    PROVE  \A k : \A h \in GPU : Before(k, h)' = Before(k, h) + Number(s, CommandFor(k, h))
  <1> SUFFICES ASSUME NEW k, NEW h \in GPU PROVE Before(k, h)' = Before(k, h) + Number(s, CommandFor(k, h))
    OBVIOUS
  <1>1. driver.requestsToSend \in Seq(Command) /\ toDriver[h] \in Seq(Command)
    BY DEF Typed, CPTypeOK, DriverState
  <1> DEFINE M == CommandFor(k, h)
  <1>2. Before(k, h)' = Number(driver'.requestsToSend, M) + Number(toDriver[h], OfType(k))
    BY DEF Before, CommandFor, OfType
  <1>3. Before(k, h) = Number(driver.requestsToSend, M) + Number(toDriver[h], OfType(k))
    BY DEF Before
  <1> HIDE DEF M
  <1>4. /\ Number(driver.requestsToSend, M) \in Nat /\ Number(s, M) \in Nat
        /\ Number(driver'.requestsToSend, M) = Number(driver.requestsToSend, M) + Number(s, M)
    BY <1>1, NumberConcat
  <1>5. Number(toDriver[h], OfType(k)) \in Nat
    BY <1>1, NumberIn
  <1> QED BY <1>2, <1>3, <1>4, <1>5 DEF M

(* No flush is left: the restarts can be sent. *)
LEMMA OrderedGrown ==
    ASSUME Typed, Ordered, NEW s \in Seq(Command), driver'.requestsToSend = driver.requestsToSend \o s,
           toDriver' = toDriver,
           \/ \A i \in DOMAIN s : s[i].type # "gpuRestart"
           \/ (\A i \in DOMAIN s : s[i].type = "gpuRestart") /\ \A h \in GPU : Under("flush", h) = 0
    PROVE  Ordered'
  <1> DEFINE q == driver.requestsToSend
  <1>1. q \in Seq(Command) /\ InOrder(q) /\ \A h \in GPU : toDriver[h] \in Seq(Command) /\ InOrder(toDriver[h])
    BY DEF Typed, CPTypeOK, DriverState, Ordered
  <1>2. /\ q \o s \in Seq(Command) /\ Len(q) \in Nat /\ Len(s) \in Nat
        /\ DOMAIN q = 1..Len(q) /\ DOMAIN s = 1..Len(s) /\ DOMAIN (q \o s) = 1..(Len(q) + Len(s))
        /\ \A i \in DOMAIN q : (q \o s)[i] = q[i]
        /\ \A i \in DOMAIN s : (q \o s)[Len(q) + i] = s[i]
    BY <1>1, ConcatAt
  <1>3. \A i \in DOMAIN (q \o s) :
            \/ i \in DOMAIN q /\ (q \o s)[i] = q[i]
            \/ i > Len(q) /\ \E j \in DOMAIN s : (q \o s)[i] = s[j]
    <2> SUFFICES ASSUME NEW i \in DOMAIN (q \o s), i \notin DOMAIN q
                 PROVE  i > Len(q) /\ \E j \in DOMAIN s : (q \o s)[i] = s[j]
      BY <1>2
    <2>1. i \in 1..(Len(q) + Len(s)) /\ i > Len(q) /\ i - Len(q) \in DOMAIN s /\ i = Len(q) + (i - Len(q))
      BY <1>2
    <2> QED BY <1>2, <2>1
  <1>4. CASE \A i \in DOMAIN s : s[i].type # "gpuRestart"
    <2>1. InOrder(q \o s)
      <3> SUFFICES ASSUME NEW i \in DOMAIN (q \o s), NEW j \in DOMAIN (q \o s), i < j,
                          (q \o s)[i].type = "flush"
                   PROVE  (q \o s)[j].type # "gpuRestart"
        BY DEF InOrder
      <3>1. CASE j > Len(q) /\ \E l \in DOMAIN s : (q \o s)[j] = s[l]
        BY <1>4, <3>1
      <3>2. CASE j \in DOMAIN q /\ (q \o s)[j] = q[j]
        <4>1. i \in DOMAIN q
          BY <1>2, <3>2
        <4> QED BY <1>1, <1>2, <3>2, <4>1 DEF InOrder
      <3> QED BY <1>3, <3>1, <3>2
    <2>2. ASSUME NEW h \in GPU
          PROVE  Number(q \o s, CommandFor("gpuRestart", h)) = Number(q, CommandFor("gpuRestart", h))
      <3>1. \A i \in DOMAIN s : s[i] \notin CommandFor("gpuRestart", h)
        BY <1>4 DEF CommandFor
      <3>2. Number(s, CommandFor("gpuRestart", h)) = 0
        BY <3>1, NumberNone
      <3>3. /\ Number(q, CommandFor("gpuRestart", h)) \in Nat
            /\ Number(q \o s, CommandFor("gpuRestart", h))
                 = Number(q, CommandFor("gpuRestart", h)) + Number(s, CommandFor("gpuRestart", h))
        BY <1>1, NumberConcat
      <3> QED BY <3>2, <3>3
    <2> QED BY <2>1, <2>2 DEF Ordered, CommandFor, OfType
  <1>5. CASE (\A i \in DOMAIN s : s[i].type = "gpuRestart") /\ \A h \in GPU : Under("flush", h) = 0
    <2>1. ASSUME NEW h \in GPU
          PROVE  Number(q, CommandFor("flush", h)) = 0 /\ Number(toDriver[h], OfType("flush")) = 0
      <3>1. "flush" \in Kinds
        BY KindsAre
      <3>2. Before("flush", h) \in Nat /\ Inside("flush", h) \in Nat /\ After("flush", h) \in Nat
        BY <3>1, CountsTyped
      <3>3. Before("flush", h) = 0
        BY <1>5, <3>2 DEF Under
      <3>4. Number(q, CommandFor("flush", h)) \in Nat /\ Number(toDriver[h], OfType("flush")) \in Nat
        BY <1>1, NumberIn
      <3> QED BY <3>3, <3>4 DEF Before
    <2>2. \A i \in DOMAIN q : q[i].type # "flush"
      <3> SUFFICES ASSUME NEW i \in DOMAIN q, q[i].type = "flush" PROVE FALSE
        OBVIOUS
      <3>1. q[i] \in Command
        BY <1>1
      <3>2. q[i].gpu \in GPU
        BY <3>1 DEF Command
      <3>3. Number(q, CommandFor("flush", q[i].gpu)) = 0
        BY <2>1, <3>2
      <3>4. q[i] \in CommandFor("flush", q[i].gpu)
        BY <3>1 DEF CommandFor
      <3> QED BY <1>1, <3>3, <3>4, NumberIn
    <2>3. InOrder(q \o s)
      BY <1>3, <1>5, <2>2 DEF InOrder
    <2> QED BY <2>1, <2>3 DEF Ordered, CommandFor, OfType
  <1> QED BY <1>4, <1>5

(* A step of the driver leaves the GPUs as they are. *)
LEMMA DriverKeeps ==
    ASSUME Typed, Staged, toPart' = toPart, fromPart' = fromPart, paused' = paused, cp' = cp,
           UNCHANGED <<pmcVars, toPMCSender, dispatching>>
    PROVE  /\ Staged' /\ \A h \in GPU : Halted(h)' = Halted(h)
           /\ \A k \in Kinds, h \in GPU : Inside(k, h)' = Inside(k, h)
  <1>1. /\ Staged' /\ \A h \in GPU : Halted(h)' = Halted(h)
        /\ \A k \in Kinds \ {"launch", "migrate"}, h \in GPU : Inside(k, h)' = Inside(k, h)
    BY Untouched
  <1>2. \A h \in GPU : Inside("launch", h)' = Inside("launch", h)
    BY InsideIs, InsideIsNext
  <1>3. ASSUME NEW h \in GPU PROVE Inside("migrate", h)' = Inside("migrate", h)
    BY MigrateKept DEF pmcVars, migrationVars
  <1> QED BY <1>1, <1>2, <1>3

(* Setting one field keeps the driver's type. *)
LEMMA DriverFields ==
    /\ \A d \in DriverState, x \in Seq(Command) : [d EXCEPT !.requestsToSend = x] \in DriverState
    /\ \A d \in DriverState, x \in PageMigrationReq \cup {NoReq} : [d EXCEPT !.currentPageMigrationReq = x] \in DriverState
    /\ \A d \in DriverState, x \in BOOLEAN : [d EXCEPT !.isCurrentlyHandlingMigrationReq = x] \in DriverState
    /\ \A d \in DriverState, x \in Seq(Command) : [d EXCEPT !.migrationReqToSendToCP = x] \in DriverState
    /\ \A d \in DriverState, x \in Page \cup {"nil"} : [d EXCEPT !.isCurrentlyMigratingOnePage = x] \in DriverState
    /\ \A d \in DriverState, x \in Int : [d EXCEPT !.numRDMADrainACK = x] \in DriverState
    /\ \A d \in DriverState, x \in Int : [d EXCEPT !.numShootDownACK = x] \in DriverState
    /\ \A d \in DriverState, x \in Int : [d EXCEPT !.numPagesMigratingACK = x] \in DriverState
    /\ \A d \in DriverState, x \in Int : [d EXCEPT !.numRestartACK = x] \in DriverState
    /\ \A d \in DriverState, x \in Int : [d EXCEPT !.numRDMARestartACK = x] \in DriverState
    /\ \A d \in DriverState, x \in BOOLEAN : [d EXCEPT !.toSendToMMU = x] \in DriverState
  <1>1. \A d \in DriverState, x \in Seq(Command) : [d EXCEPT !.requestsToSend = x] \in DriverState
    BY DEF DriverState
  <1>2. \A d \in DriverState, x \in PageMigrationReq \cup {NoReq} : [d EXCEPT !.currentPageMigrationReq = x] \in DriverState
    BY DEF DriverState
  <1>3. \A d \in DriverState, x \in BOOLEAN : [d EXCEPT !.isCurrentlyHandlingMigrationReq = x] \in DriverState
    BY DEF DriverState
  <1>4. \A d \in DriverState, x \in Seq(Command) : [d EXCEPT !.migrationReqToSendToCP = x] \in DriverState
    BY DEF DriverState
  <1>5. \A d \in DriverState, x \in Page \cup {"nil"} : [d EXCEPT !.isCurrentlyMigratingOnePage = x] \in DriverState
    BY DEF DriverState
  <1>6. \A d \in DriverState, x \in Int : [d EXCEPT !.numRDMADrainACK = x] \in DriverState
    BY DEF DriverState
  <1>7. \A d \in DriverState, x \in Int : [d EXCEPT !.numShootDownACK = x] \in DriverState
    BY DEF DriverState
  <1>8. \A d \in DriverState, x \in Int : [d EXCEPT !.numPagesMigratingACK = x] \in DriverState
    BY DEF DriverState
  <1>9. \A d \in DriverState, x \in Int : [d EXCEPT !.numRestartACK = x] \in DriverState
    BY DEF DriverState
  <1>10. \A d \in DriverState, x \in Int : [d EXCEPT !.numRDMARestartACK = x] \in DriverState
    BY DEF DriverState
  <1>11. \A d \in DriverState, x \in BOOLEAN : [d EXCEPT !.toSendToMMU = x] \in DriverState
    BY DEF DriverState
  <1> QED BY <1>1, <1>2, <1>3, <1>4, <1>5, <1>6, <1>7, <1>8, <1>9, <1>10, <1>11

(* The types of the driver's fields. *)
LEMMA DriverIs ==
    Typed => /\ driver \in DriverState
             /\ driver.requestsToSend \in Seq(Command) /\ ToMove \in Seq(Command)
             /\ req \in PageMigrationReq \cup {NoReq} /\ OnePage \in Page \cup {"nil"}
             /\ Handling \in BOOLEAN /\ driver.toSendToMMU \in BOOLEAN
             /\ driver.numRDMADrainACK \in Int /\ driver.numShootDownACK \in Int
             /\ driver.numPagesMigratingACK \in Int /\ driver.numRestartACK \in Int /\ driver.numRDMARestartACK \in Int
             /\ \A h \in GPU : toDriver[h] \in Seq(Command) /\ uplink[h] \in Seq(Answer)
  BY DEF Typed, CPTypeOK, DriverState, req, OnePage, Handling, ToMove

(* A command goes from the driver's list to the port of its GPU. *)
LEMMA Forwarded ==
    ASSUME Typed, NEW g \in GPU, NEW c \in Command, g = c.gpu, driver.requestsToSend # <<>>,
           c = Head(driver.requestsToSend), driver'.requestsToSend = Tail(driver.requestsToSend),
           toDriver' = [toDriver EXCEPT ![g] = Append(@, c)]
    PROVE  \A k : \A h \in GPU : Before(k, h)' = Before(k, h)
  <1>1. driver.requestsToSend \in Seq(Command)
    BY DriverIs
  <1>2. /\ toDriver'[g] = Append(toDriver[g], c) /\ toDriver[g] \in Seq(Command)
        /\ \A h \in GPU : h # g => toDriver'[h] = toDriver[h]
    BY DEF Typed, CPTypeOK
  <1> SUFFICES ASSUME NEW k, NEW h \in GPU PROVE Before(k, h)' = Before(k, h)
    OBVIOUS
  <1> DEFINE M == CommandFor(k, h)
             N == OfType(k)
  <1>3. Before(k, h)' = Number(Tail(driver.requestsToSend), M) + Number(toDriver'[h], N)
    BY DEF Before, CommandFor, OfType
  <1>4. Before(k, h) = Number(driver.requestsToSend, M) + Number(toDriver[h], N)
    BY DEF Before
  <1>5. c \in M <=> c \in N /\ h = g
    BY DEF CommandFor, OfType
  <1> HIDE DEF M, N
  <1>6. /\ Number(driver.requestsToSend, M) \in Nat
        /\ c \notin M => Number(Tail(driver.requestsToSend), M) = Number(driver.requestsToSend, M)
        /\ c \in M => Number(Tail(driver.requestsToSend), M) = Number(driver.requestsToSend, M) - 1
    BY <1>1, NumberTails, NumberIn
  <1>7. /\ Number(toDriver[g], N) \in Nat
        /\ c \notin N => Number(toDriver'[g], N) = Number(toDriver[g], N)
        /\ c \in N => Number(toDriver'[g], N) = Number(toDriver[g], N) + 1
    BY <1>2, NumberAppends, NumberIn
  <1>8. CASE h # g
    BY <1>2, <1>3, <1>4, <1>5, <1>6, <1>8
  <1>9. CASE h = g /\ c \in N
    BY <1>3, <1>4, <1>5, <1>6, <1>7, <1>9
  <1>10. CASE h = g /\ c \notin N
    <2>1. Number(Tail(driver.requestsToSend), M) = Number(driver.requestsToSend, M)
      BY <1>5, <1>6, <1>10
    <2>2. Number(toDriver'[h], N) = Number(toDriver[h], N)
      BY <1>7, <1>10
    <2>3. QED  BY <1>3, <1>4, <2>1, <2>2
  <1> QED BY <1>8, <1>9, <1>10

(* The driver sends to the GPUs. *)
LEMMA SendsToGPUs ==
    ASSUME Controlled, SendToGPUs
    PROVE  Controlled'
  <1>1. Typed /\ Staged /\ Driven /\ Ordered /\ Answering
    BY DEF Controlled
  <1> DEFINE q == driver.requestsToSend
             m == Head(driver.requestsToSend)
  <1>2. q \in Seq(Command) /\ q # <<>>
    BY <1>1, DriverIs DEF SendToGPUs
  <1>3. PICK c \in Command : c = Head(driver.requestsToSend)
    BY <1>2
  <1>4. c.gpu \in GPU
    BY DEF Command
  <1>5. PICK g \in GPU : g = c.gpu
    BY <1>4
  <1>6. /\ toDriver' = [toDriver EXCEPT ![g] = Append(@, c)]
        /\ driver' = [driver EXCEPT !.requestsToSend = Tail(driver.requestsToSend)]
    BY <1>3, <1>5 DEF SendToGPUs, SendToCP
  <1>7. Tail(driver.requestsToSend) \in Seq(Command)
    BY <1>2
  <1>8. driver' \in DriverState /\ driver'.requestsToSend = Tail(driver.requestsToSend) /\ DriverKept
    <2>1. driver \in DriverState
      BY <1>1, DriverIs
    <2>2. driver' \in DriverState
      BY <1>6, <1>7, <2>1, DriverFields
    <2>3. driver'.requestsToSend = Tail(driver.requestsToSend) /\ DriverKept
      BY <1>6, <2>1 DEF DriverState, DriverKept
    <2> QED BY <2>2, <2>3
  <1>9. /\ toDriver'[g] = Append(toDriver[g], c) /\ toDriver[g] \in Seq(Command)
        /\ \A h \in GPU : h # g => toDriver'[h] = toDriver[h]
        /\ toDriver' \in [GPU -> Seq(Command)]
    BY <1>1, <1>6 DEF Typed, CPTypeOK
  <1>10. UNCHANGED <<pmcVars, uplink, toPart, fromPart, toPMCSender, cp, dispatching, paused, tlb, dirty,
                     queueVars, pageTable, frames, accessVars, mmuVars>>
    BY DEF SendToGPUs, ToCPUnchanged, gpuVars, tableVars
  <1>11. Typed'
    <2>1. CPTypeOK'
      BY <1>1, <1>9, <1>10 DEF Typed, CPTypeOK
    <2>2. PMCTyped'
      BY <1>1, <1>10, TypedIs DEF PMCTyped, pmcVars, migrationVars
    <2>3. RestTyped'
      BY <1>1, <1>8, <1>10, TypedIs DEF RestTyped, queueVars, accessVars, mmuVars
    <2> QED BY <2>1, <2>2, <2>3, TypedIsNext
  <1>12. /\ Staged' /\ \A h \in GPU : Halted(h)' = Halted(h)
         /\ \A k \in Kinds, h \in GPU : Inside(k, h)' = Inside(k, h)
    BY <1>1, <1>10, DriverKeeps
  <1>13. \A k : \A h \in GPU : Before(k, h)' = Before(k, h)
    BY <1>1, <1>2, <1>3, <1>5, <1>6, <1>8, Forwarded
  <1>14. Still
    BY <1>10, <1>12, <1>13, AfterSame DEF Still, Same
  <1>15. Driven'
    <2>1. UNCHANGED <<queueVars, tableVars, mmuVars>>
      BY <1>10 DEF tableVars
    <2>2. Moves(g)
      BY <1>14 DEF Moves
    <2> QED BY <1>1, <1>5, <1>8, <1>11, <2>1, <2>2, MovedDriver
  <1>16. Ordered'
    <2>1. /\ 1 \in DOMAIN q /\ q[1] = c
          /\ \A i \in DOMAIN Tail(q) : i + 1 \in DOMAIN q /\ Tail(q)[i] = q[i + 1]
      BY <1>2, <1>3, TailAt
    <2>2. InOrder(q) /\ InOrder(toDriver[g])
      BY <1>1 DEF Ordered
    <2>3. DOMAIN Tail(q) \subseteq Nat /\ (\A i \in DOMAIN Tail(q) : i >= 1) /\ DOMAIN q \subseteq Nat
      BY <1>2
    <2>4. InOrder(Tail(q))
      <3> SUFFICES ASSUME NEW i \in DOMAIN Tail(q), NEW j \in DOMAIN Tail(q), i < j, Tail(q)[i].type = "flush"
                   PROVE  Tail(q)[j].type # "gpuRestart"
        BY DEF InOrder
      <3>1. i + 1 \in DOMAIN q /\ j + 1 \in DOMAIN q /\ i + 1 < j + 1 /\ q[i + 1].type = "flush"
        BY <2>1, <2>3
      <3>2. q[j + 1].type # "gpuRestart"
        BY <2>2, <3>1 DEF InOrder
      <3> QED BY <2>1, <3>2
    <2>5. /\ DOMAIN toDriver'[g] = DOMAIN toDriver[g] \cup {Len(toDriver[g]) + 1}
          /\ toDriver'[g][Len(toDriver[g]) + 1] = c
          /\ \A i \in DOMAIN toDriver[g] : toDriver'[g][i] = toDriver[g][i]
      BY <1>9, AppendAt
    <2>6. Len(toDriver[g]) \in Nat /\ DOMAIN toDriver[g] = 1..Len(toDriver[g])
      BY <1>9
    <2>7. c.type = "gpuRestart" => \A i \in DOMAIN toDriver[g] : toDriver[g][i].type # "flush"
      <3> SUFFICES ASSUME c.type = "gpuRestart", NEW i \in DOMAIN toDriver[g]
                   PROVE  toDriver[g][i].type # "flush"
        OBVIOUS
      <3>1. c \in CommandFor("gpuRestart", g)
        BY <1>5 DEF CommandFor
      <3>2. Number(q, CommandFor("gpuRestart", g)) # 0
        BY <1>2, <1>3, <3>1, NumberTails
      <3>3. Number(toDriver[g], OfType("flush")) = 0
        BY <1>1, <3>2 DEF Ordered
      <3>4. toDriver[g][i] \notin OfType("flush")
        BY <1>9, <3>3, NumberIn
      <3>5. toDriver[g][i] \in Command
        BY <1>9
      <3> QED BY <3>4, <3>5 DEF OfType
    <2>8. InOrder(toDriver'[g])
      <3> SUFFICES ASSUME NEW i \in DOMAIN toDriver'[g], NEW j \in DOMAIN toDriver'[g], i < j,
                          toDriver'[g][i].type = "flush"
                   PROVE  toDriver'[g][j].type # "gpuRestart"
        BY DEF InOrder
      <3>1. i \in DOMAIN toDriver[g]
        BY <2>5, <2>6
      <3>2. CASE j \in DOMAIN toDriver[g]
        BY <2>2, <2>5, <3>1, <3>2 DEF InOrder
      <3>3. CASE j = Len(toDriver[g]) + 1
        BY <2>5, <2>7, <3>1, <3>3
      <3> QED BY <2>5, <3>2, <3>3
    <2>9. ASSUME NEW h \in GPU, Number(toDriver'[h], OfType("flush")) # 0
          PROVE  Number(Tail(q), CommandFor("gpuRestart", h)) = 0
      <3> DEFINE M == CommandFor("gpuRestart", h)
      <3>1. /\ Number(q, M) \in Nat /\ Number(Tail(q), M) \in Nat
            /\ c \notin M => Number(Tail(q), M) = Number(q, M)
            /\ c \in M => Number(Tail(q), M) = Number(q, M) - 1
        <4> HIDE DEF M
        <4> QED BY <1>2, <1>3, <1>7, NumberTails, NumberIn
      <3>2. CASE Number(toDriver[h], OfType("flush")) # 0
        <4>1. Number(q, M) = 0
          BY <1>1, <3>2 DEF Ordered
        <4> HIDE DEF M, q
        <4>2. Number(Tail(q), M) = 0
          BY <3>1, <4>1
        <4> QED BY <4>2 DEF M
      <3>3. CASE Number(toDriver[h], OfType("flush")) = 0
        <4>1. h = g
          BY <1>9, <2>9, <3>3
        <4>2. c \in OfType("flush")
          <5> DEFINE F == OfType("flush")
          <5>1. Number(toDriver'[g], F) # Number(toDriver[g], F)
            BY <2>9, <3>3, <4>1
          <5> HIDE DEF F
          <5>2. c \notin F => Number(Append(toDriver[g], c), F) = Number(toDriver[g], F)
            BY <1>9, NumberAppends
          <5>3. c \in F
            BY <1>9, <5>1, <5>2
          <5> QED BY <5>3 DEF F
        <4>3. \A j \in DOMAIN Tail(q) : Tail(q)[j].type # "gpuRestart"
          <5> SUFFICES ASSUME NEW j \in DOMAIN Tail(q) PROVE Tail(q)[j].type # "gpuRestart"
            OBVIOUS
          <5>1. j + 1 \in DOMAIN q /\ 1 < j + 1 /\ q[1].type = "flush"
            BY <2>1, <2>3, <4>2 DEF OfType
          <5> QED BY <2>1, <2>2, <5>1 DEF InOrder
        <4>4. \A j \in DOMAIN Tail(q) : Tail(q)[j] \notin M
          BY <4>3 DEF CommandFor
        <4> QED BY <4>4, NumberNone
      <3> QED BY <3>2, <3>3
    <2> QED BY <1>1, <1>8, <1>9, <2>4, <2>8, <2>9 DEF Ordered, CommandFor, OfType
  <1>17. Answering'
    BY <1>1, <1>10 DEF Answering, pmcVars, migrationVars
  <1> QED BY <1>11, <1>12, <1>15, <1>16, <1>17 DEF Controlled

(* The driver answers the MMU. *)
LEMMA AnswersMMU ==
    ASSUME Controlled, SendToMMU
    PROVE  Controlled'
  <1>1. Typed /\ Staged /\ Driven /\ Ordered /\ Answering
    BY DEF Controlled
  <1>2. /\ driver' = [driver EXCEPT !.toSendToMMU = FALSE] /\ driver.toSendToMMU
        /\ mmuWaits' = NoReq /\ toMMU' = toMMU
        /\ UNCHANGED <<pmcVars, cpVars, queueVars, migrations, pageTable, frames, accessVars>>
    BY DEF SendToMMU, tableVars
  <1>3. driver \in DriverState /\ driver' \in DriverState
    <2>1. driver \in DriverState
      BY <1>1, DriverIs
    <2> QED BY <1>2, <2>1, DriverFields
  <1>4. /\ driver'.requestsToSend = driver.requestsToSend /\ req' = req /\ Handling' = Handling
        /\ ToMove' = ToMove /\ OnePage' = OnePage /\ \A k : Count(k)' = Count(k)
        /\ Phase' = Phase /\ driver'.toSendToMMU = FALSE
    BY <1>2, <1>3 DEF DriverState, req, Handling, ToMove, OnePage, Count, Phase
  <1>5. /\ toDriver' = toDriver /\ uplink' = uplink /\ toPart' = toPart /\ fromPart' = fromPart /\ paused' = paused
        /\ cp' = cp /\ UNCHANGED <<pmcVars, toPMCSender, dispatching>>
    BY <1>2 DEF cpVars, portVars, gpuVars
  <1>6. /\ Staged' /\ \A h \in GPU : Halted(h)' = Halted(h)
        /\ \A k \in Kinds, h \in GPU : Inside(k, h)' = Inside(k, h)
    BY <1>1, <1>5, DriverKeeps
  <1>7. /\ \A k, h : Before(k, h)' = Before(k, h) /\ After(k, h)' = After(k, h)
        /\ \A k \in Kinds, h \in GPU : Under(k, h)' = Under(k, h)
        /\ \A k \in Kinds : Due(k)' = Due(k)
    <2>1. \A k, h : Before(k, h)' = Before(k, h) /\ After(k, h)' = After(k, h)
      BY <1>4, <1>5, BeforeSame, AfterSame
    <2>2. \A k \in Kinds, h \in GPU : Under(k, h)' = Under(k, h)
      BY <1>6, <2>1 DEF Under
    <2> QED BY <2>1, <2>2 DEF Due
  <1>8. Typed'
    <2>1. CPTypeOK'
      BY <1>1, <1>2 DEF Typed, CPTypeOK, cpVars, portVars, gpuVars
    <2>2. PMCTyped'
      BY <1>1, <1>2, TypedIs DEF PMCTyped, pmcVars, migrationVars
    <2>3. RestTyped'
      BY <1>1, <1>2, <1>3, TypedIs DEF RestTyped, queueVars, accessVars
    <2> QED BY <2>1, <2>2, <2>3, TypedIsNext
  <1>9. Phased'
    <2>1. \A k \in Sweeps : Count(k)' = Cardinality(Due(k))' /\ \A h \in GPU : Under(k, h)' \in {0, 1}
      BY <1>1, <1>4, <1>7, KindsAre DEF Driven, Phased
    <2>2. \A k \in Sweeps \cup {"migrate"} : (Count(k)' # 0 <=> Phase' = k)
      BY <1>1, <1>4 DEF Driven, Phased
    <2>3. Handling' => Legal(req)'
      BY <1>1, <1>4 DEF Driven, Phased, Legal
    <2>4. \A k \in {"shootdown", "gpuRestart"} : \A h \in Due(k)' : h \in req'.accessing
      BY <1>1, <1>4, <1>7, KindsAre DEF Driven, Phased
    <2> QED BY <2>1, <2>2, <2>3, <2>4 DEF Phased
  <1>10. pageTable' = pageTable /\ queue' = queue /\ isRunning' = isRunning /\ reqs' = reqs
    BY <1>2 DEF queueVars
  <1>11. Paging' /\ Queued'
    <2>1. Paging'
      BY <1>1, <1>4, <1>7, <1>10, KindsAre DEF Driven, Paging
    <2> QED BY <1>1, <1>7, <1>10, <2>1, KindsAre DEF Driven, Queued
  <1>12. StagesMatch'
    BY <1>1, <1>4, <1>6, <1>7, KindsAre DEF Driven, StagesMatch, StoppedNow
  <1>13. Asking'
    <2>1. mmuWaits # NoReq
      BY <1>1, <1>2 DEF Driven, Asking
    <2>2. toMMU = <<>> /\ Phase \in {"idle", "gpuRestart", "rdmaRestart"}
      <3>1. Phase \in {"idle", "gpuRestart", "rdmaRestart"}
        BY <1>1, <1>2 DEF Driven, Asking
      <3> QED BY <1>1, <1>2, <2>1, <3>1 DEF Driven, Asking
    <2> QED BY <1>2, <1>4, <2>2 DEF Asking
  <1>14. Ordered'
    BY <1>1, <1>4, <1>5 DEF Ordered, CommandFor, OfType
  <1>15. Answering'
    BY <1>1, <1>5 DEF Answering, pmcVars, migrationVars
  <1> QED BY <1>6, <1>8, <1>9, <1>11, <1>12, <1>13, <1>14, <1>15 DEF Controlled, Driven

-----------------------------------------------------------------------------
(* How the driver goes from one part of a migration to the next. *)

(* The GPUs with a command of a kind, outside the part of the migration it belongs to and in it. *)
LEMMA SweepIs ==
    ASSUME Typed, Phased, NEW k \in Sweeps
    PROVE  /\ \A h \in GPU : Under(k, h) = One(h \in Due(k))
           /\ Due(k) \subseteq GPU /\ IsFiniteSet(Due(k))
           /\ Count(k) = Cardinality(Due(k)) /\ Count(k) \in Nat
           /\ Phase # k => Count(k) = 0 /\ Due(k) = {} /\ \A h \in GPU : Under(k, h) = 0
  <1>1. IsFiniteSet(GPU) /\ Due(k) \subseteq GPU
    BY DriverAssumption DEF Due
  <1>2. IsFiniteSet(Due(k))
    BY <1>1, FS_Subset
  <1>3. Count(k) = Cardinality(Due(k)) /\ Cardinality(Due(k)) \in Nat
    BY <1>2, FS_CardinalityType DEF Phased
  <1>4. \A h \in GPU : Under(k, h) = One(h \in Due(k))
    <2>1. \A h \in GPU : Under(k, h) \in {0, 1} /\ (h \in Due(k) <=> Under(k, h) # 0)
      BY DEF Phased, Due
    <2> QED BY <2>1 DEF One
  <1>5. ASSUME Phase # k PROVE Count(k) = 0 /\ Due(k) = {} /\ \A h \in GPU : Under(k, h) = 0
    <2>1. Count(k) = 0
      BY <1>5 DEF Phased
    <2>2. Due(k) = {}
      BY <1>2, <1>3, <2>1, CountZero
    <2> QED BY <1>4, <2>1, <2>2 DEF One
  <1> QED BY <1>1, <1>2, <1>3, <1>4, <1>5

(* No page moves outside the part of the migration that moves pages. *)
LEMMA MoveIs ==
    ASSUME Typed, Driven, Phase # "migrate"
    PROVE  Count("migrate") = 0 /\ OnePage = "nil" /\ ToMove = <<>> /\ \A h \in GPU : Under("migrate", h) = 0
  <1>1. Count("migrate") = 0
    BY DEF Driven, Phased
  <1>2. Count("migrate") = Len(ToMove) + One(OnePage # "nil") /\ Len(ToMove) \in Nat
    BY DriverIs DEF Driven, Paging
  <1>3. OnePage = "nil" /\ Len(ToMove) = 0
    BY <1>1, <1>2 DEF One
  <1>4. ToMove = <<>>
    BY <1>3, DriverIs, EmptySeq
  <1>5. \A h \in GPU : Under("migrate", h) = 0
    BY <1>3 DEF Driven, Paging, One
  <1> QED BY <1>1, <1>3, <1>4, <1>5

(* A command under way is before, inside or after a GPU. *)
LEMMA UnderIs ==
    ASSUME Typed, NEW k \in Kinds, NEW h \in GPU
    PROVE  /\ Before(k, h) \in Nat /\ Inside(k, h) \in Nat /\ After(k, h) \in Nat /\ Under(k, h) \in Nat
           /\ Under(k, h) = Before(k, h) + Inside(k, h) + After(k, h)
  BY CountsTyped DEF Under

(* The same after a step. *)
LEMMA UnderIsNext ==
    \A k, h : Under(k, h)' = Before(k, h)' + Inside(k, h)' + After(k, h)'
  BY DEF Under

(* The next part of a migration, and the GPUs it is about. *)
LEMMA PhasedGoes ==
    ASSUME NEW b \in {"idle", "migrate"} \cup Sweeps, NEW G \in SUBSET GPU,
           \A l \in Sweeps : l # b => Count(l)' = 0 /\ \A h \in GPU : Under(l, h)' = 0,
           b \in Sweeps => Count(b)' = Cardinality(G) /\ G # {} /\ \A h \in GPU : Under(b, h)' = One(h \in G),
           Count("migrate")' # 0 <=> b = "migrate",
           Handling' <=> b # "idle", Handling' => Legal(req)',
           b \in {"shootdown", "gpuRestart"} => \A h \in G : h \in req'.accessing
    PROVE  Phased' /\ Phase' = b
  <1>1. \A l \in Sweeps \ {b} : Due(l)' = {}
    BY DEF Due
  <1>2. b \in Sweeps => Due(b)' = G
    BY DEF Due, One
  <1>3. IsFiniteSet(G)
    BY DriverAssumption, FS_Subset
  <1>4. b \in Sweeps => Count(b)' # 0
    BY <1>3, CountZero
  <1>5. "drain" \in Sweeps /\ "shootdown" \in Sweeps /\ "gpuRestart" \in Sweeps /\ "rdmaRestart" \in Sweeps
    BY KindsAre
  <1>6. \A l \in Sweeps \cup {"migrate"} : (Count(l)' # 0 <=> b = l)
    <2>1. "migrate" \notin Sweeps
      BY DEF Sweeps
    <2> QED BY <1>4, <2>1
  <1>7. Phase' = b
    <2>1. PhaseFacts'
      BY PhaseIsNext
    <2>2. /\ Count("drain")' # 0 <=> b = "drain"
          /\ Count("shootdown")' # 0 <=> b = "shootdown"
          /\ Count("migrate")' # 0 <=> b = "migrate"
          /\ Count("gpuRestart")' # 0 <=> b = "gpuRestart"
      BY <1>5, <1>6
    <2>3. b \in {"idle", "drain", "shootdown", "migrate", "gpuRestart", "rdmaRestart"}
      BY DEF Sweeps
    <2>4. CASE b = "idle"
      BY <2>1, <2>4 DEF PhaseFacts
    <2>5. CASE b # "idle"
      <3>1. Handling'
        BY <2>5
      <3> QED BY <2>1, <2>2, <2>3, <2>5, <3>1 DEF PhaseFacts
    <2> QED BY <2>4, <2>5
  <1>8. \A l \in Sweeps : Count(l)' = Cardinality(Due(l))' /\ \A h \in GPU : Under(l, h)' \in {0, 1}
    <2> SUFFICES ASSUME NEW l \in Sweeps
                 PROVE  Count(l)' = Cardinality(Due(l))' /\ \A h \in GPU : Under(l, h)' \in {0, 1}
      OBVIOUS
    <2>1. CASE l = b
      BY <1>2, <2>1 DEF One
    <2>2. CASE l # b
      <3>1. Due(l)' = {}
        BY <1>1, <2>2
      <3>2. Cardinality(Due(l))' = 0
        BY <3>1, FS_EmptySet
      <3> QED BY <2>2, <3>2
    <2> QED BY <2>1, <2>2
  <1>9. \A l \in {"shootdown", "gpuRestart"} : \A h \in Due(l)' : h \in req'.accessing
    BY <1>1, <1>2, <1>5
  <1>10. \A l \in Sweeps \cup {"migrate"} : (Count(l)' # 0 <=> Phase' = l)
    BY <1>6, <1>7
  <1> QED BY <1>7, <1>8, <1>9, <1>10 DEF Phased

(* What changes when the driver takes an answer t of GPU g and sends s.     *)
Answered(g, t, s) ==
    /\ Staged' /\ Answering' /\ (\A h \in GPU : Halted(h)' = Halted(h))
    /\ \A k \in Kinds, h \in GPU : Inside(k, h)' = Inside(k, h)
    /\ \A k \in Kinds : \A h \in GPU : Before(k, h)' = Before(k, h) + Number(s, CommandFor(k, h))
    /\ \A k \in Kinds : \A h \in GPU : Number(s, CommandFor(k, h)) \in Nat
    /\ Under(t, g) # 0 /\ Under(t, g)' = Under(t, g) - 1 + Number(s, CommandFor(t, g))
    /\ \A k \in Kinds : \A h \in GPU :
          k # t \/ h # g => Under(k, h)' = Under(k, h) + Number(s, CommandFor(k, h))

(* The driver takes an answer and appends to its list of requests. *)
LEMMA Returns ==
    ASSUME Typed, Staged, Answering, NEW g \in GPU, NEW t \in Kinds, NEW s \in Seq(Command),
           uplink[g] # <<>>, Head(uplink[g]) = t, uplink' = [uplink EXCEPT ![g] = Tail(@)],
           driver'.requestsToSend = driver.requestsToSend \o s,
           UNCHANGED <<pmcVars, toDriver, toPart, fromPart, toPMCSender, cp, gpuVars>>
    PROVE  Answered(g, t, s)
  <1>1. toDriver' = toDriver /\ toPart' = toPart /\ fromPart' = fromPart /\ paused' = paused /\ cp' = cp
        /\ UNCHANGED <<pmcVars, toPMCSender, dispatching>>
    BY DEF gpuVars
  <1>2. /\ Staged' /\ \A h \in GPU : Halted(h)' = Halted(h)
        /\ \A k \in Kinds, h \in GPU : Inside(k, h)' = Inside(k, h)
    BY <1>1, DriverKeeps
  <1>3. \A k : \A h \in GPU : Before(k, h)' = Before(k, h) + Number(s, CommandFor(k, h))
    BY <1>1, BeforeGrown
  <1>4. After(t, g)' = After(t, g) - 1 /\ After(t, g) \in Nat \ {0}
    BY AfterTaken
  <1>9. \A k \in Kinds : \A h \in GPU : k # t \/ h # g => After(k, h)' = After(k, h)
    BY AfterLeft
  <1>5. Answering'
    BY <1>1 DEF Answering, pmcVars, migrationVars
  <1>6. \A k : \A h \in GPU : Number(s, CommandFor(k, h)) \in Nat
    BY NumberIn
  <1>7. Under(t, g) # 0 /\ Under(t, g)' = Under(t, g) - 1 + Number(s, CommandFor(t, g))
    <2>1. Before(t, g) \in Nat /\ Inside(t, g) \in Nat /\ Under(t, g) = Before(t, g) + Inside(t, g) + After(t, g)
      BY UnderIs
    <2>2. Under(t, g)' = Before(t, g)' + Inside(t, g)' + After(t, g)'
      BY UnderIsNext
    <2>3. Before(t, g)' = Before(t, g) + Number(s, CommandFor(t, g)) /\ Inside(t, g)' = Inside(t, g)
          /\ Number(s, CommandFor(t, g)) \in Nat
      BY <1>2, <1>3, <1>6
    <2> QED BY <1>4, <2>1, <2>2, <2>3
  <1>8. ASSUME NEW k \in Kinds, NEW h \in GPU, k # t \/ h # g
        PROVE  Under(k, h)' = Under(k, h) + Number(s, CommandFor(k, h))
    <2>1. /\ Before(k, h) \in Nat /\ Inside(k, h) \in Nat /\ After(k, h) \in Nat
          /\ Under(k, h) = Before(k, h) + Inside(k, h) + After(k, h)
      BY UnderIs
    <2>2. Under(k, h)' = Before(k, h)' + Inside(k, h)' + After(k, h)'
      BY UnderIsNext
    <2>3. Before(k, h)' = Before(k, h) + Number(s, CommandFor(k, h)) /\ Inside(k, h)' = Inside(k, h)
          /\ Number(s, CommandFor(k, h)) \in Nat /\ After(k, h)' = After(k, h)
      BY <1>2, <1>3, <1>6, <1>8, <1>9
    <2> QED BY <2>1, <2>2, <2>3
  <1> QED BY <1>2, <1>3, <1>5, <1>6, <1>7, <1>8 DEF Answered

(* The last answer of a sweep, and one before the last. *)
LEMMA SweepAnswered ==
    ASSUME Typed, Phased, NEW k \in Sweeps, NEW g \in GPU, Under(k, g) # 0
    PROVE  /\ Phase = k /\ Under(k, g) = 1 /\ Handling
           /\ k \in {"shootdown", "gpuRestart"} => g \in req.accessing
           /\ Count(k) - 1 = Cardinality(Due(k) \ {g}) /\ Due(k) \ {g} \in SUBSET GPU
           /\ Count(k) - 1 # 0 => Due(k) \ {g} # {}
           /\ Count(k) - 1 = 0 => \A h \in GPU : h # g => Under(k, h) = 0
           /\ \A h \in GPU : h # g => Under(k, h) = One(h \in Due(k) \ {g})
  <1>1. /\ \A h \in GPU : Under(k, h) = One(h \in Due(k))
        /\ Due(k) \subseteq GPU /\ IsFiniteSet(Due(k)) /\ Count(k) = Cardinality(Due(k)) /\ Count(k) \in Nat
    BY SweepIs
  <1>2. /\ Phase = k /\ Under(k, g) = 1 /\ Handling
        /\ k \in {"shootdown", "gpuRestart"} => g \in req.accessing
    BY DueIs
  <1> DEFINE D == Due(k) \ {g}
  <1>3. g \in Due(k)
    BY <1>1 DEF One
  <1>4. Cardinality(D) = Cardinality(Due(k)) - 1 /\ IsFiniteSet(D)
    BY <1>1, <1>3, FS_RemoveElement
  <1>5. Cardinality(D) = 0 <=> D = {}
    BY <1>4, CountZero
  <1>6. \A h \in GPU : h # g => Under(k, h) = One(h \in D)
    BY <1>1 DEF One
  <1>7. D = {} => \A h \in GPU : h # g => Under(k, h) = 0
    BY <1>6 DEF One
  <1> QED BY <1>1, <1>2, <1>4, <1>5, <1>6, <1>7

(* Nothing is added to the list of requests by an empty one. *)
LEMMA NoMore ==
    /\ <<>> \in Seq(Command) /\ \A q \in Seq(Command) : q \o <<>> = q
    /\ \A k, h : Number(<<>>, CommandFor(k, h)) = 0
  <1>1. \A q \in Seq(Command) : q \o <<>> = q
    OBVIOUS
  <1>2. \A k, h : Number(<<>>, CommandFor(k, h)) = 0
    BY NumberEmpty
  <1> QED BY <1>1, <1>2

(* A driver that takes an answer keeps the types. *)
LEMMA AnswerTyped ==
    ASSUME Typed, NEW g \in GPU, uplink[g] # <<>>, uplink' = [uplink EXCEPT ![g] = Tail(@)], ReturnUnchanged,
           driver' \in DriverState, pageTable' \in [Page -> GPU] /\ frames' \in [GPU -> [Page -> Nat]]
    PROVE  Typed'
  <1>1. /\ UNCHANGED <<pmcVars, toDriver, toPart, fromPart, toPMCSender, cp, dispatching, paused, tlb, dirty>>
        /\ UNCHANGED <<queue, isRunning, reqs, inflight, rdmaOut, value, writes, toMMU, mmuWaits, migrations>>
    BY DEF ReturnUnchanged, gpuVars, queueVars, accessVars, mmuVars
  <1>2. uplink \in [GPU -> Seq(Answer)]
    BY DEF Typed, CPTypeOK
  <1>3. uplink' \in [GPU -> Seq(Answer)]
    <2>1. Tail(uplink[g]) \in Seq(Answer)
      BY <1>2
    <2> QED BY <1>2, <2>1
  <1>4. CPTypeOK'
    BY <1>1, <1>3 DEF Typed, CPTypeOK
  <1>5. PMCTyped'
    BY <1>1, TypedIs DEF PMCTyped, pmcVars, migrationVars
  <1>6. RestTyped'
    BY <1>1, TypedIs DEF RestTyped
  <1> QED BY <1>4, <1>5, <1>6, TypedIsNext

(* The queue and the command at its head are as before. *)
LEMMA QueuedKept ==
    ASSUME Driven, UNCHANGED queueVars,
           \A k \in {"launch", "flush", "copy"} : \A h \in GPU : Under(k, h)' = Under(k, h),
           pageTable' = pageTable \/ Head(queue).type = "launch"
    PROVE  Queued'
  <1>1. queue' = queue /\ isRunning' = isRunning /\ reqs' = reqs
    BY DEF queueVars
  <1>2. Queued
    BY DEF Driven
  <1>3. \A k \in {"launch", "flush", "copy"} : \A h \in GPU : Under(k, h)' = One(h \in reqs' /\ Head(queue').type = k)
    BY <1>1, <1>2 DEF Queued
  <1>4. ASSUME NEW h \in reqs', Head(queue').type = "copy" PROVE h = pageTable'[Head(queue').page]
    BY <1>1, <1>2, <1>4 DEF Queued
  <1> QED BY <1>1, <1>2, <1>3, <1>4 DEF Queued

(* What changes when the driver takes an answer and asks for nothing.      *)
Taken(g, t) ==
    /\ Staged' /\ Answering' /\ (\A h \in GPU : Halted(h)' = Halted(h))
    /\ \A k \in Kinds, h \in GPU : Inside(k, h)' = Inside(k, h)
    /\ \A k \in Kinds : \A h \in GPU : Before(k, h)' = Before(k, h)
    /\ Under(t, g) # 0 /\ Under(t, g)' = Under(t, g) - 1
    /\ \A k \in Kinds : \A h \in GPU : k # t \/ h # g => Under(k, h)' = Under(k, h)

(* A driver that takes an answer takes it from the end of a GPU's uplink only. *)
LEMMA TakesAnswer ==
    ASSUME Typed, Staged, Answering, NEW g \in GPU, NEW t \in Kinds,
           uplink[g] # <<>>, Head(uplink[g]) = t, uplink' = [uplink EXCEPT ![g] = Tail(@)],
           driver'.requestsToSend = driver.requestsToSend,
           UNCHANGED <<pmcVars, toDriver, toPart, fromPart, toPMCSender, cp, gpuVars>>
    PROVE  Taken(g, t)
  <1>1. PICK s \in Seq(Command) : s = <<>>
    BY NoMore
  <1>2. driver'.requestsToSend = driver.requestsToSend \o s
    BY <1>1, NoMore, DriverIs
  <1>3. \A k \in Kinds : \A h \in GPU : Number(s, CommandFor(k, h)) = 0
    BY <1>1, NoMore
  <1>4. Answered(g, t, s)
    BY <1>2, Returns
  <1>5. \A k \in Kinds : \A h \in GPU : Before(k, h)' = Before(k, h) + Number(s, CommandFor(k, h))
    BY <1>4 DEF Answered
  <1>6. Under(t, g) # 0 /\ Under(t, g)' = Under(t, g) - 1 + Number(s, CommandFor(t, g))
    BY <1>4 DEF Answered
  <1>7. \A k \in Kinds : \A h \in GPU :
            k # t \/ h # g => Under(k, h)' = Under(k, h) + Number(s, CommandFor(k, h))
    BY <1>4 DEF Answered
  <1>8. \A k \in Kinds : \A h \in GPU : Before(k, h) \in Nat /\ Under(k, h) \in Nat
    BY UnderIs
  <1>9. \A k \in Kinds : \A h \in GPU : Before(k, h)' = Before(k, h)
    BY <1>3, <1>5, <1>8
  <1>10. Under(t, g)' = Under(t, g) - 1
    BY <1>3, <1>6, <1>8
  <1>11. \A k \in Kinds : \A h \in GPU : k # t \/ h # g => Under(k, h)' = Under(k, h)
    BY <1>3, <1>7, <1>8
  <1> QED BY <1>4, <1>6, <1>9, <1>10, <1>11 DEF Answered, Taken

(* An answer of a sweep before the last. *)
LEMMA NotLast ==
    ASSUME Controlled, NEW k \in Sweeps, NEW g \in GPU, Return(g, k), ReturnUnchanged, pageTable' = pageTable, frames' = frames,
           driver' \in DriverState, Count(k)' = Count(k) - 1, Count(k) - 1 # 0,
           \A l \in Sweeps \cup {"migrate"} : l # k => Count(l)' = Count(l),
           driver'.requestsToSend = driver.requestsToSend, req' = req, Handling' = Handling,
           ToMove' = ToMove, OnePage' = OnePage, driver'.toSendToMMU = driver.toSendToMMU
    PROVE  Controlled'
  <1>1. Typed /\ Staged /\ Driven /\ Ordered /\ Answering
    BY DEF Controlled
  <1>2. k \in Kinds
    BY KindsAre
  <1>3. uplink[g] # <<>> /\ Head(uplink[g]) = k /\ uplink' = [uplink EXCEPT ![g] = Tail(@)]
    BY DEF Return
  <1>4. /\ UNCHANGED <<pmcVars, toDriver, toPart, fromPart, toPMCSender, cp, gpuVars>>
        /\ UNCHANGED <<queueVars, accessVars, mmuVars>>
    BY DEF ReturnUnchanged
  <1>5. Taken(g, k)
    BY <1>1, <1>2, <1>3, <1>4, TakesAnswer
  <1>6. /\ Staged' /\ Answering' /\ (\A h \in GPU : Halted(h)' = Halted(h))
        /\ \A l \in Kinds, h \in GPU : Inside(l, h)' = Inside(l, h)
        /\ \A l \in Kinds : \A h \in GPU : Before(l, h)' = Before(l, h)
        /\ Under(k, g) # 0 /\ Under(k, g)' = Under(k, g) - 1
    BY <1>5 DEF Taken
  <1>8. \A l \in Kinds : \A h \in GPU : l # k \/ h # g => Under(l, h)' = Under(l, h)
    BY <1>5 DEF Taken
  <1>9. /\ Phase = k /\ Under(k, g) = 1 /\ Handling
        /\ k \in {"shootdown", "gpuRestart"} => g \in req.accessing
        /\ Count(k) - 1 = Cardinality(Due(k) \ {g}) /\ Due(k) \ {g} \in SUBSET GPU
        /\ Due(k) \ {g} # {}
        /\ \A h \in GPU : h # g => Under(k, h) = One(h \in Due(k) \ {g})
    BY <1>1, <1>6, SweepAnswered DEF Driven
  <1>10. Under(k, g)' = 0
    BY <1>6, <1>9
  <1>11. PICK G \in SUBSET GPU : G = Due(k) \ {g}
    BY <1>9
  <1>12. \A h \in GPU : Under(k, h)' = One(h \in G)
    BY <1>2, <1>8, <1>9, <1>10, <1>11 DEF One
  <1>13. \A l \in Sweeps : l # k => Count(l)' = 0 /\ \A h \in GPU : Under(l, h)' = 0
    <2> SUFFICES ASSUME NEW l \in Sweeps, l # k PROVE Count(l)' = 0 /\ \A h \in GPU : Under(l, h)' = 0
      OBVIOUS
    <2>1. Count(l) = 0 /\ \A h \in GPU : Under(l, h) = 0
      BY <1>1, <1>9, SweepIs DEF Driven
    <2>2. l \in Kinds
      BY KindsAre
    <2> QED BY <1>8, <2>1, <2>2
  <1>14. k # "migrate" /\ k # "idle"
    BY DEF Sweeps
  <1>15. Count("migrate")' = 0
    BY <1>1, <1>9, <1>14, MoveIs
  <1>16. Legal(req)'
    BY <1>1, <1>9 DEF Driven, Phased, Legal
  <1>17. k \in {"shootdown", "gpuRestart"} => \A h \in G : h \in req'.accessing
    BY <1>1, <1>11, KindsAre DEF Driven, Phased
  <1>18. Phased' /\ Phase' = k
    <2>1. Count(k)' = Cardinality(G) /\ G # {}
      BY <1>9, <1>11
    <2> QED BY <1>9, <1>12, <1>13, <1>14, <1>15, <1>16, <1>17, <2>1, PhasedGoes
  <1>19. Paging'
    <2>1. "migrate" \in Kinds /\ \A h \in GPU : Under("migrate", h)' = Under("migrate", h)
      BY <1>8, <1>14, KindsAre
    <2>2. Count("migrate")' = Count("migrate") /\ Phase' # "migrate"
      BY <1>14, <1>18
    <2> QED BY <1>1, <2>1, <2>2 DEF Driven, Paging
  <1>20. StagesMatch'
    BY <1>1, <1>6, <1>9, <1>18, KindsAre DEF Driven, StagesMatch, StoppedNow
  <1>21. Queued'
    <2>1. \A l \in {"launch", "flush", "copy"} : l \in Kinds /\ l # k
      BY KindsAre DEF Sweeps
    <2> QED BY <1>1, <1>4, <1>8, <2>1, QueuedKept
  <1>22. Asking'
    BY <1>1, <1>4, <1>9, <1>18 DEF Driven, Asking, Legal, mmuVars, gpuVars
  <1>23. Ordered'
    BY <1>1, <1>4 DEF Ordered, CommandFor, OfType
  <1>24. Typed'
    <2>1. pageTable' \in [Page -> GPU] /\ frames' \in [GPU -> [Page -> Nat]]
      BY <1>1, DriverIs DEF Typed
    <2> QED BY <1>1, <1>3, <2>1, AnswerTyped
  <1> QED BY <1>6, <1>18, <1>19, <1>20, <1>21, <1>22, <1>23, <1>24 DEF Controlled, Driven

-----------------------------------------------------------------------------
(* The updates of several fields at once. *)
LEMMA DriverUpdates ==
    /\ \A d \in DriverState, n \in Int, c \in Int, q \in Seq(Command) :
          [d EXCEPT !.numRDMADrainACK = n, !.numShootDownACK = c, !.requestsToSend = q] \in DriverState
    /\ \A d \in DriverState, n \in Int, c \in Int, q \in Seq(Command) :
          [d EXCEPT !.numShootDownACK = n, !.numPagesMigratingACK = c, !.migrationReqToSendToCP = q] \in DriverState
    /\ \A d \in DriverState, n \in Int, c \in Int, q \in Seq(Command) :
          [d EXCEPT !.numPagesMigratingACK = n, !.isCurrentlyMigratingOnePage = "nil", !.requestsToSend = q,
                    !.numRestartACK = c, !.toSendToMMU = TRUE] \in DriverState
    /\ \A d \in DriverState, n \in Int :
          [d EXCEPT !.numPagesMigratingACK = n, !.isCurrentlyMigratingOnePage = "nil"] \in DriverState
    /\ \A d \in DriverState, n \in Int, c \in Int, q \in Seq(Command) :
          [d EXCEPT !.numRestartACK = n, !.requestsToSend = q, !.numRDMARestartACK = c] \in DriverState
    /\ \A d \in DriverState, n \in Int :
          [d EXCEPT !.numRDMARestartACK = n, !.currentPageMigrationReq = NoReq,
                    !.isCurrentlyHandlingMigrationReq = FALSE] \in DriverState
    /\ \A d \in DriverState, q \in Seq(Command), p \in Page \cup {"nil"} :
          [d EXCEPT !.migrationReqToSendToCP = q, !.isCurrentlyMigratingOnePage = p] \in DriverState
    /\ \A d \in DriverState, r \in PageMigrationReq \cup {NoReq}, q \in Seq(Command), c \in Int :
          [d EXCEPT !.currentPageMigrationReq = r, !.isCurrentlyHandlingMigrationReq = TRUE,
                    !.requestsToSend = q, !.numRDMADrainACK = c] \in DriverState
  <1>1. ASSUME NEW d \in DriverState, NEW n \in Int, NEW c \in Int, NEW q \in Seq(Command)
        PROVE  [d EXCEPT !.numRDMADrainACK = n, !.numShootDownACK = c, !.requestsToSend = q] \in DriverState
    <2>1. PICK e \in DriverState : e = [d EXCEPT !.numRDMADrainACK = n]
      BY DriverFields
    <2>2. PICK f \in DriverState : f = [e EXCEPT !.numShootDownACK = c]
      BY DriverFields
    <2>3. [f EXCEPT !.requestsToSend = q] \in DriverState
      BY DriverFields
    <2> QED BY <2>1, <2>2, <2>3
  <1>2. ASSUME NEW d \in DriverState, NEW n \in Int, NEW c \in Int, NEW q \in Seq(Command)
        PROVE  [d EXCEPT !.numShootDownACK = n, !.numPagesMigratingACK = c, !.migrationReqToSendToCP = q] \in DriverState
    <2>1. PICK e \in DriverState : e = [d EXCEPT !.numShootDownACK = n]
      BY DriverFields
    <2>2. PICK f \in DriverState : f = [e EXCEPT !.numPagesMigratingACK = c]
      BY DriverFields
    <2>3. [f EXCEPT !.migrationReqToSendToCP = q] \in DriverState
      BY DriverFields
    <2> QED BY <2>1, <2>2, <2>3
  <1>3. ASSUME NEW d \in DriverState, NEW n \in Int
        PROVE  [d EXCEPT !.numPagesMigratingACK = n, !.isCurrentlyMigratingOnePage = "nil"] \in DriverState
    <2>1. PICK e \in DriverState : e = [d EXCEPT !.numPagesMigratingACK = n]
      BY DriverFields
    <2>2. [e EXCEPT !.isCurrentlyMigratingOnePage = "nil"] \in DriverState
      BY DriverFields
    <2> QED BY <2>1, <2>2
  <1>4. ASSUME NEW d \in DriverState, NEW n \in Int, NEW c \in Int, NEW q \in Seq(Command)
        PROVE  [d EXCEPT !.numPagesMigratingACK = n, !.isCurrentlyMigratingOnePage = "nil", !.requestsToSend = q,
                         !.numRestartACK = c, !.toSendToMMU = TRUE] \in DriverState
    <2>1. PICK e \in DriverState : e = [d EXCEPT !.numPagesMigratingACK = n, !.isCurrentlyMigratingOnePage = "nil"]
      BY <1>3
    <2>2. PICK f \in DriverState : f = [e EXCEPT !.requestsToSend = q]
      BY DriverFields
    <2>3. PICK i \in DriverState : i = [f EXCEPT !.numRestartACK = c]
      BY DriverFields
    <2>4. [i EXCEPT !.toSendToMMU = TRUE] \in DriverState
      BY DriverFields
    <2> QED BY <2>1, <2>2, <2>3, <2>4
  <1>5. ASSUME NEW d \in DriverState, NEW n \in Int, NEW c \in Int, NEW q \in Seq(Command)
        PROVE  [d EXCEPT !.numRestartACK = n, !.requestsToSend = q, !.numRDMARestartACK = c] \in DriverState
    <2>1. PICK e \in DriverState : e = [d EXCEPT !.numRestartACK = n]
      BY DriverFields
    <2>2. PICK f \in DriverState : f = [e EXCEPT !.requestsToSend = q]
      BY DriverFields
    <2>3. [f EXCEPT !.numRDMARestartACK = c] \in DriverState
      BY DriverFields
    <2> QED BY <2>1, <2>2, <2>3
  <1>6. ASSUME NEW d \in DriverState, NEW n \in Int
        PROVE  [d EXCEPT !.numRDMARestartACK = n, !.currentPageMigrationReq = NoReq,
                         !.isCurrentlyHandlingMigrationReq = FALSE] \in DriverState
    <2>1. PICK e \in DriverState : e = [d EXCEPT !.numRDMARestartACK = n]
      BY DriverFields
    <2>2. PICK f \in DriverState : f = [e EXCEPT !.currentPageMigrationReq = NoReq]
      BY DriverFields
    <2>3. [f EXCEPT !.isCurrentlyHandlingMigrationReq = FALSE] \in DriverState
      BY DriverFields
    <2> QED BY <2>1, <2>2, <2>3
  <1>7. ASSUME NEW d \in DriverState, NEW q \in Seq(Command), NEW p \in Page \cup {"nil"}
        PROVE  [d EXCEPT !.migrationReqToSendToCP = q, !.isCurrentlyMigratingOnePage = p] \in DriverState
    <2>1. PICK e \in DriverState : e = [d EXCEPT !.migrationReqToSendToCP = q]
      BY DriverFields
    <2>2. [e EXCEPT !.isCurrentlyMigratingOnePage = p] \in DriverState
      BY DriverFields
    <2> QED BY <2>1, <2>2
  <1>8. ASSUME NEW d \in DriverState, NEW r \in PageMigrationReq \cup {NoReq}, NEW q \in Seq(Command), NEW c \in Int
        PROVE  [d EXCEPT !.currentPageMigrationReq = r, !.isCurrentlyHandlingMigrationReq = TRUE,
                         !.requestsToSend = q, !.numRDMADrainACK = c] \in DriverState
    <2>1. PICK e \in DriverState : e = [d EXCEPT !.currentPageMigrationReq = r]
      BY DriverFields
    <2>2. PICK f \in DriverState : f = [e EXCEPT !.isCurrentlyHandlingMigrationReq = TRUE]
      BY DriverFields
    <2>3. PICK i \in DriverState : i = [f EXCEPT !.requestsToSend = q]
      BY DriverFields
    <2>4. [i EXCEPT !.numRDMADrainACK = c] \in DriverState
      BY DriverFields
    <2> QED BY <2>1, <2>2, <2>3, <2>4
  <1> QED BY <1>1, <1>2, <1>3, <1>4, <1>5, <1>6, <1>7, <1>8

(* The answer taken was under way. *)
LEMMA AnswerUnder ==
    ASSUME Typed, NEW g \in GPU, NEW t \in Kinds, Return(g, t)
    PROVE  /\ uplink[g] # <<>> /\ Head(uplink[g]) = t /\ uplink' = [uplink EXCEPT ![g] = Tail(@)]
           /\ After(t, g) # 0 /\ Under(t, g) # 0
  <1>1. uplink[g] # <<>> /\ Head(uplink[g]) = t /\ uplink' = [uplink EXCEPT ![g] = Tail(@)]
    BY DEF Return
  <1>2. After(t, g) \in Nat \ {0}
    BY <1>1, AfterTaken
  <1>3. Under(t, g) = Before(t, g) + Inside(t, g) + After(t, g) /\ Before(t, g) \in Nat /\ Inside(t, g) \in Nat
    BY UnderIs
  <1> QED BY <1>1, <1>2, <1>3

(* A GPU has drained its RDMA engine: the last answer starts the shootdown. *)
LEMMA DrainAnswered ==
    ASSUME Controlled, NEW g \in GPU, ProcessRDMADrainRsp(g)
    PROVE  Controlled'
  <1>1. Typed /\ Staged /\ Driven /\ Ordered /\ Answering
    BY DEF Controlled
  <1>2. "drain" \in Kinds /\ "drain" \in Sweeps /\ "shootdown" \in Kinds /\ "shootdown" \in Sweeps /\ "migrate" \in Kinds
    BY KindsAre
  <1>3. Return(g, "drain") /\ ReturnUnchanged /\ pageTable' = pageTable /\ frames' = frames
    BY DEF ProcessRDMADrainRsp, tableVars
  <1>4. uplink[g] # <<>> /\ Head(uplink[g]) = "drain" /\ uplink' = [uplink EXCEPT ![g] = Tail(@)]
        /\ Under("drain", g) # 0
    BY <1>1, <1>2, <1>3, AnswerUnder
  <1>5. /\ UNCHANGED <<pmcVars, toDriver, toPart, fromPart, toPMCSender, cp, gpuVars>>
        /\ UNCHANGED <<queueVars, accessVars, mmuVars>>
    BY <1>3 DEF ReturnUnchanged
  <1>6. driver \in DriverState /\ driver.numRDMADrainACK \in Int
    BY <1>1, DriverIs
  <1>7. PICK n \in Int : n = driver.numRDMADrainACK - 1
    BY <1>6
  <1>8. n = Count("drain") - 1
    BY <1>7, CountIs
  <1>9. CASE n # 0
    <2>1. driver' = [driver EXCEPT !.numRDMADrainACK = n]
      BY <1>7, <1>9 DEF ProcessRDMADrainRsp, LastAnswer
    <2>2. driver' \in DriverState
      BY <1>6, <2>1, DriverFields
    <2>3. driver'.numRDMADrainACK = n /\ driver'.requestsToSend = driver.requestsToSend /\ req' = req
          /\ Handling' = Handling /\ ToMove' = ToMove /\ OnePage' = OnePage /\ driver'.toSendToMMU = driver.toSendToMMU
          /\ driver'.numShootDownACK = driver.numShootDownACK /\ driver'.numRestartACK = driver.numRestartACK
          /\ driver'.numPagesMigratingACK = driver.numPagesMigratingACK
          /\ driver'.numRDMARestartACK = driver.numRDMARestartACK
      BY <1>6, <2>1 DEF DriverState, req, Handling, ToMove, OnePage
    <2>4. Count("drain")' = n /\ \A l \in Sweeps \cup {"migrate"} : l # "drain" => Count(l)' = Count(l)
      BY <2>3, CountIs, CountIsNext DEF Sweeps
    <2> QED BY <1>2, <1>3, <1>8, <1>9, <2>2, <2>3, <2>4, NotLast
  <1>10. CASE n = 0
    <2>1. /\ Phase = "drain" /\ Under("drain", g) = 1 /\ Handling
          /\ \A h \in GPU : h # g => Under("drain", h) = 0
      BY <1>1, <1>2, <1>4, <1>8, <1>10, SweepAnswered DEF Driven
    <2>2. Legal(req)
      BY <1>1, <2>1 DEF Driven, Phased
    <2>3. PICK r \in PageMigrationReq : r = req
      BY <2>2 DEF Legal
    <2>4. PICK s \in Seq(Command) : s = Shootdowns(r)
      BY ShootdownsIs
    <2>5. PICK G \in SUBSET GPU : G = r.accessing
      BY DEF PageMigrationReq
    <2>6. IsFiniteSet(G) /\ G # {}
      BY <2>2, <2>3, <2>5, DriverAssumption, FS_Subset DEF Legal
    <2>7. PICK c \in Int : c = Cardinality(G)
      BY <2>6, FS_CardinalityType
    <2>8. PICK q \in Seq(Command) : q = driver.requestsToSend \o s
      BY <1>1, DriverIs, ConcatAt
    <2>9. driver' = [driver EXCEPT !.numRDMADrainACK = n, !.numShootDownACK = c, !.requestsToSend = q]
      BY <1>7, <1>10, <2>3, <2>4, <2>5, <2>7, <2>8 DEF ProcessRDMADrainRsp, LastAnswer, req
    <2>10. driver' \in DriverState
      BY <1>6, <2>9, DriverUpdates
    <2>11. driver'.numRDMADrainACK = 0 /\ driver'.requestsToSend = driver.requestsToSend \o s /\ req' = req
          /\ Handling' = Handling /\ ToMove' = ToMove /\ OnePage' = OnePage /\ driver'.toSendToMMU = driver.toSendToMMU
          /\ driver'.numShootDownACK = c /\ driver'.numRestartACK = driver.numRestartACK
          /\ driver'.numPagesMigratingACK = driver.numPagesMigratingACK
          /\ driver'.numRDMARestartACK = driver.numRDMARestartACK
      BY <1>6, <1>10, <2>8, <2>9 DEF DriverState, req, Handling, ToMove, OnePage
    <2>12. Count("drain")' = 0 /\ Count("shootdown")' = c /\ Count("migrate")' = Count("migrate")
           /\ Count("gpuRestart")' = Count("gpuRestart") /\ Count("rdmaRestart")' = Count("rdmaRestart")
      BY <2>11, CountIs, CountIsNext
    <2>13. Answered(g, "drain", s)
      BY <1>1, <1>2, <1>4, <1>5, <2>11, Returns
    <2>14. /\ \A k : \A h \in GPU : Number(s, CommandFor(k, h)) = One(k = "shootdown" /\ h \in G)
           /\ \A i \in DOMAIN s : s[i].type = "shootdown"
      BY <2>4, <2>5, ShootdownsIs
    <2>15. \A k \in Kinds : \A h \in GPU : Before(k, h) \in Nat /\ Under(k, h) \in Nat
      BY <1>1, UnderIs
    <2>16. \A k \in Kinds : \A h \in GPU : k \notin {"drain", "shootdown"} => Under(k, h)' = Under(k, h)
      BY <2>13, <2>14, <2>15 DEF Answered, One
    <2>29. \A h \in GPU : Number(s, CommandFor("drain", h)) = 0 /\ Number(s, CommandFor("shootdown", h)) = One(h \in G)
      BY <2>14 DEF One
    <2>17. ASSUME NEW h \in GPU PROVE Under("drain", h)' = 0
      <3>1. CASE h = g
        <4>1. Under("drain", g)' = Under("drain", g) - 1 + Number(s, CommandFor("drain", g))
          BY <2>13 DEF Answered
        <4> QED BY <2>1, <2>29, <3>1, <4>1
      <3>2. CASE h # g
        <4>1. Under("drain", h)' = Under("drain", h) + Number(s, CommandFor("drain", h))
          BY <1>2, <2>13, <3>2 DEF Answered
        <4> QED BY <2>1, <2>29, <3>2, <4>1
      <3> QED BY <3>1, <3>2
    <2>18. \A k \in Sweeps : k # "drain" => Count(k) = 0 /\ \A h \in GPU : Under(k, h) = 0
      BY <1>1, <2>1, SweepIs DEF Driven
    <2>19. \A h \in GPU : Under("shootdown", h)' = One(h \in G)
      BY <1>2, <2>13, <2>14, <2>18 DEF Answered, One
    <2>20. \A l \in Sweeps : l # "shootdown" => Count(l)' = 0 /\ \A h \in GPU : Under(l, h)' = 0
      BY <2>12, <2>16, <2>17, <2>18, KindsAre DEF Sweeps
    <2>21. Count("migrate")' = 0
      BY <1>1, <2>1, <2>12, MoveIs
    <2>22. Phased' /\ Phase' = "shootdown"
      <3>1. Legal(req)'
        BY <2>2, <2>11 DEF Legal
      <3>2. \A h \in G : h \in req'.accessing
        BY <2>3, <2>5, <2>11
      <3> QED BY <1>2, <2>1, <2>6, <2>7, <2>11, <2>12, <2>19, <2>20, <2>21, <3>1, <3>2, PhasedGoes
    <2>23. Paging'
      <3>1. \A h \in GPU : Under("migrate", h)' = Under("migrate", h)
        BY <1>2, <2>16
      <3> QED BY <1>1, <2>11, <2>12, <2>22, <3>1 DEF Driven, Paging
    <2>24. StagesMatch'
      <3> SUFFICES ASSUME NEW h \in GPU PROVE ~Halted(h)' /\ ~StoppedNow(h)'
        BY DEF StagesMatch
      <3>1. ~Halted(h)'
        <4>1. ~Halted(h)
          BY <1>1, <2>1 DEF Driven, StagesMatch, StoppedNow
        <4> QED BY <2>13, <4>1 DEF Answered
      <3>2. h \in G => Before("shootdown", h)' # 0
        <4>1. Before("shootdown", h)' = Before("shootdown", h) + Number(s, CommandFor("shootdown", h))
          BY <1>2, <2>13 DEF Answered
        <4>2. Before("shootdown", h) \in Nat
          BY <1>2, <2>15
        <4> QED BY <2>29, <4>1, <4>2 DEF One
      <3> QED BY <2>3, <2>5, <2>11, <2>22, <3>1, <3>2 DEF StoppedNow
    <2>25. Queued'
      <3>1. \A l \in {"launch", "flush", "copy"} : l \in Kinds /\ l \notin {"drain", "shootdown"}
        BY KindsAre
      <3> QED BY <1>1, <1>3, <1>5, <2>16, <3>1, QueuedKept
    <2>26. Asking'
      BY <1>1, <1>5, <2>1, <2>11, <2>22, PhaseAsks DEF Driven, Asking, mmuVars, gpuVars, Legal
    <2>27. Ordered'
      BY <1>1, <1>5, <2>11, <2>14, OrderedGrown
    <2>28. Typed'
      <3>1. pageTable' \in [Page -> GPU] /\ frames' \in [GPU -> [Page -> Nat]]
        BY <1>1, <1>3 DEF Typed
      <3> QED BY <1>1, <1>3, <1>4, <2>10, <3>1, AnswerTyped
    <2> QED BY <2>13, <2>22, <2>23, <2>24, <2>25, <2>26, <2>27, <2>28 DEF Controlled, Driven, Answered
  <1> QED BY <1>9, <1>10

(* A GPU has stopped: with the last answer the pages move. *)
LEMMA ShootdownAnswered ==
    ASSUME Controlled, NEW g \in GPU, ProcessShootdownCompleteRsp(g)
    PROVE  Controlled'
  <1>1. Typed /\ Staged /\ Driven /\ Ordered /\ Answering
    BY DEF Controlled
  <1>2. "shootdown" \in Kinds /\ "shootdown" \in Sweeps /\ "migrate" \in Kinds
    BY KindsAre
  <1>3. Return(g, "shootdown") /\ ReturnUnchanged
    BY DEF ProcessShootdownCompleteRsp
  <1>4. uplink[g] # <<>> /\ Head(uplink[g]) = "shootdown" /\ uplink' = [uplink EXCEPT ![g] = Tail(@)]
        /\ After("shootdown", g) # 0 /\ Under("shootdown", g) # 0
    BY <1>1, <1>2, <1>3, AnswerUnder
  <1>5. /\ UNCHANGED <<pmcVars, toDriver, toPart, fromPart, toPMCSender, cp, gpuVars>>
        /\ UNCHANGED <<queueVars, accessVars, mmuVars>>
    BY <1>3 DEF ReturnUnchanged
  <1>6. driver \in DriverState /\ driver.numShootDownACK \in Int
    BY <1>1, DriverIs
  <1>7. PICK n \in Int : n = driver.numShootDownACK - 1
    BY <1>6
  <1>8. n = Count("shootdown") - 1
    BY <1>7, CountIs
  <1>9. CASE n # 0
    <2>1. driver' = [driver EXCEPT !.numShootDownACK = n] /\ pageTable' = pageTable /\ frames' = frames
      BY <1>7, <1>9 DEF ProcessShootdownCompleteRsp, LastAnswer, tableVars
    <2>2. driver' \in DriverState
      BY <1>6, <2>1, DriverFields
    <2>3. driver'.numShootDownACK = n /\ driver'.requestsToSend = driver.requestsToSend /\ req' = req
          /\ Handling' = Handling /\ ToMove' = ToMove /\ OnePage' = OnePage /\ driver'.toSendToMMU = driver.toSendToMMU
          /\ driver'.numRDMADrainACK = driver.numRDMADrainACK /\ driver'.numRestartACK = driver.numRestartACK
          /\ driver'.numPagesMigratingACK = driver.numPagesMigratingACK
          /\ driver'.numRDMARestartACK = driver.numRDMARestartACK
      BY <1>6, <2>1 DEF DriverState, req, Handling, ToMove, OnePage
    <2>4. Count("shootdown")' = n /\ \A l \in Sweeps \cup {"migrate"} : l # "shootdown" => Count(l)' = Count(l)
      BY <2>3, CountIs, CountIsNext DEF Sweeps
    <2> QED BY <1>2, <1>3, <1>8, <1>9, <2>1, <2>2, <2>3, <2>4, NotLast
  <1>10. CASE n = 0
    <2>1. /\ Phase = "shootdown" /\ Under("shootdown", g) = 1 /\ Handling
          /\ \A h \in GPU : h # g => Under("shootdown", h) = 0
      BY <1>1, <1>2, <1>4, <1>8, <1>10, SweepAnswered DEF Driven
    <2>2. Legal(req)
      BY <1>1, <2>1 DEF Driven, Phased
    <2>3. PICK r \in PageMigrationReq : r = req
      BY <2>2 DEF Legal
    <2>4. PICK s \in Seq(MoveMsg(r)) : s = Migrations(r)
      BY MigrationsIs
    <2>5. s \in Seq(Command) /\ Len(s) \in Nat
      <3>1. MoveMsg(r) \subseteq Command
        BY MigrationsIs
      <3> QED BY <2>4, <3>1
    <2>6. PICK c \in Int : c = Cardinality(r.pages) /\ c = Len(s) /\ c # 0
      <3>1. IsFiniteSet(r.pages)
        BY DriverAssumption, FS_Subset DEF PageMigrationReq
      <3>2. r.pages # {}
        BY <2>2, <2>3 DEF Legal
      <3>3. Cardinality(r.pages) # 0
        BY <3>1, <3>2, CountZero
      <3> QED BY <2>4, <3>3, MigrationsIs
    <2>7. /\ Count("migrate") = 0 /\ OnePage = "nil" /\ ToMove = <<>>
          /\ \A h \in GPU : Under("migrate", h) = 0
      BY <1>1, <2>1, MoveIs
    <2>8. driver.numPagesMigratingACK + Cardinality(r.pages) = c /\ driver.migrationReqToSendToCP \o Migrations(r) = s
      <3>1. driver.numPagesMigratingACK = 0 /\ driver.migrationReqToSendToCP = <<>>
        BY <2>7, CountIs DEF ToMove
      <3>2. <<>> \o s = s
        BY <2>4
      <3> QED BY <2>4, <2>6, <3>1, <3>2
    <2>9. /\ driver' = [driver EXCEPT !.numShootDownACK = n, !.numPagesMigratingACK = c, !.migrationReqToSendToCP = s]
          /\ pageTable' = [p \in Page |-> IF p \in r.pages THEN r.to ELSE pageTable[p]]
      <3> DEFINE m == driver.numPagesMigratingACK + Cardinality(r.pages)
                 q == driver.migrationReqToSendToCP \o Migrations(r)
      <3>1. /\ driver' = [driver EXCEPT !.numShootDownACK = n, !.numPagesMigratingACK = m, !.migrationReqToSendToCP = q]
            /\ pageTable' = [p \in Page |-> IF p \in r.pages THEN r.to ELSE pageTable[p]]
        BY <1>7, <1>10, <2>3 DEF ProcessShootdownCompleteRsp, LastAnswer, req
      <3>2. m = c /\ q = s
        BY <2>8
      <3> QED BY <3>1, <3>2
    <2>10. driver' \in DriverState
      BY <1>6, <2>5, <2>9, DriverUpdates
    <2>11. driver'.numShootDownACK = 0 /\ driver'.requestsToSend = driver.requestsToSend /\ req' = req
          /\ Handling' = Handling /\ ToMove' = s /\ OnePage' = OnePage /\ driver'.toSendToMMU = driver.toSendToMMU
          /\ driver'.numRDMADrainACK = driver.numRDMADrainACK /\ driver'.numRestartACK = driver.numRestartACK
          /\ driver'.numPagesMigratingACK = c
          /\ driver'.numRDMARestartACK = driver.numRDMARestartACK
      BY <1>6, <1>10, <2>9 DEF DriverState, req, Handling, ToMove, OnePage
    <2>12. Count("shootdown")' = 0 /\ Count("migrate")' = c /\ Count("drain")' = Count("drain")
           /\ Count("gpuRestart")' = Count("gpuRestart") /\ Count("rdmaRestart")' = Count("rdmaRestart")
      BY <2>11, CountIs, CountIsNext
    <2>13. Taken(g, "shootdown")
      BY <1>1, <1>2, <1>4, <1>5, <2>11, TakesAnswer
    <2>16. \A k \in Kinds : \A h \in GPU : k # "shootdown" => Under(k, h)' = Under(k, h)
      BY <2>13 DEF Taken
    <2>17. ASSUME NEW h \in GPU PROVE Under("shootdown", h)' = 0
      BY <1>2, <2>1, <2>13 DEF Taken
    <2>18. \A k \in Sweeps : k # "shootdown" => Count(k) = 0 /\ \A h \in GPU : Under(k, h) = 0
      BY <1>1, <2>1, SweepIs DEF Driven
    <2>20. \A l \in Sweeps : Count(l)' = 0 /\ \A h \in GPU : Under(l, h)' = 0
      BY <2>12, <2>16, <2>17, <2>18, KindsAre DEF Sweeps
    <2>22. Phased' /\ Phase' = "migrate"
      <3>1. Legal(req)'
        BY <2>2, <2>11 DEF Legal
      <3>2. PICK G \in SUBSET GPU : G = {}
        OBVIOUS
      <3>3. "migrate" \notin Sweeps
        BY DEF Sweeps
      <3> QED BY <2>1, <2>6, <2>11, <2>12, <2>20, <3>1, <3>2, <3>3, PhasedGoes
    <2>23. Paging'
      <3>1. \A h \in GPU : Under("migrate", h)' = 0
        BY <1>2, <2>7, <2>16
      <3>2. Count("migrate")' = Len(ToMove') + One(OnePage' # "nil")
        BY <2>5, <2>6, <2>7, <2>11, <2>12 DEF One
      <3>3. \A p \in req'.pages : pageTable'[p] = req'.to
        BY <2>3, <2>9, <2>11 DEF PageMigrationReq
      <3>4. ToMove' \in Seq([type : {"migrate"}, gpu : {req'.to}, page : req'.pages, from : {req'.host}])
        BY <2>3, <2>4, <2>11 DEF MoveMsg
      <3> QED BY <2>7, <2>11, <3>1, <3>2, <3>3, <3>4 DEF Paging, One
    <2>24. StagesMatch'
      <3> SUFFICES ASSUME NEW h \in GPU PROVE Halted(h)' <=> StoppedNow(h)'
        BY DEF StagesMatch
      <3>1. Halted(h)' <=> StoppedNow(h)
        BY <1>1, <2>13 DEF Taken, Driven, StagesMatch
      <3>2. Before("shootdown", h) = 0 /\ Inside("shootdown", h) = 0
        <4>1. /\ Before("shootdown", h) \in Nat /\ Inside("shootdown", h) \in Nat /\ After("shootdown", h) \in Nat
              /\ Under("shootdown", h) = Before("shootdown", h) + Inside("shootdown", h) + After("shootdown", h)
          BY <1>1, <1>2, UnderIs
        <4>2. CASE h = g
          BY <1>4, <2>1, <4>1, <4>2
        <4>3. CASE h # g
          BY <2>1, <4>1, <4>3
        <4> QED BY <4>2, <4>3
      <3>3. StoppedNow(h) <=> h \in req.accessing
        BY <2>1, <3>2 DEF StoppedNow
      <3>4. StoppedNow(h)' <=> h \in req'.accessing
        BY <2>22 DEF StoppedNow
      <3> QED BY <2>11, <3>1, <3>3, <3>4
    <2>25. Queued'
      <3>1. \A l \in {"launch", "flush", "copy"} : l \in Kinds /\ l # "shootdown"
        BY KindsAre
      <3>2. Head(queue).type = "launch"
        BY <1>1, <2>1, PhaseAsks
      <3> QED BY <1>1, <1>5, <2>16, <3>1, <3>2, QueuedKept
    <2>26. Asking'
      BY <1>1, <1>5, <2>1, <2>11, <2>22, PhaseAsks DEF Driven, Asking, mmuVars, gpuVars, Legal
    <2>27. Ordered'
      BY <1>1, <1>5, <2>11 DEF Ordered, CommandFor, OfType
    <2>28. Typed'
      <3>1. pageTable' \in [Page -> GPU] /\ frames' \in [GPU -> [Page -> Nat]]
        <4>1. \A p \in Page : (IF p \in r.pages THEN r.to ELSE pageTable[p]) \in GPU
          BY <1>1, <2>3 DEF Typed, PageMigrationReq
        <4>2. r.to \in GPU /\ frames \in [GPU -> [Page -> Nat]]
          BY <1>1, <2>3 DEF Typed, PageMigrationReq
        <4>3. PICK f \in [Page -> Nat] :
                 f = [p \in Page |-> IF p \in r.pages THEN frames[r.to][p] + 1 ELSE frames[r.to][p]]
          <5>1. \A p \in Page : (IF p \in r.pages THEN frames[r.to][p] + 1 ELSE frames[r.to][p]) \in Nat
            BY <4>2
          <5>2. [p \in Page |-> IF p \in r.pages THEN frames[r.to][p] + 1 ELSE frames[r.to][p]] \in [Page -> Nat]
            BY <5>1, Zenon
          <5> QED BY <5>2
        <4>4. frames' = [frames EXCEPT ![r.to] = f]
          BY <1>7, <1>10, <2>3, <4>3 DEF ProcessShootdownCompleteRsp, LastAnswer, req
        <4> QED BY <2>9, <4>1, <4>2, <4>4
      <3> QED BY <1>1, <1>3, <1>4, <2>10, <3>1, AnswerTyped
    <2> QED BY <2>13, <2>22, <2>23, <2>24, <2>25, <2>26, <2>27, <2>28 DEF Controlled, Driven, Taken
  <1> QED BY <1>9, <1>10

(* A page has moved: with the last one the GPUs start and the MMU gets its answer. *)
LEMMA MigrateAnswered ==
    ASSUME Controlled, NEW g \in GPU, ProcessPageMigrationRspFromCP(g)
    PROVE  Controlled'
  <1>1. Typed /\ Staged /\ Driven /\ Ordered /\ Answering
    BY DEF Controlled
  <1>2. /\ "migrate" \in Kinds /\ "gpuRestart" \in Kinds /\ "gpuRestart" \in Sweeps /\ "shootdown" \in Kinds
        /\ "migrate" \notin Sweeps
    BY KindsAre DEF Sweeps
  <1>3. Return(g, "migrate") /\ ReturnUnchanged /\ pageTable' = pageTable /\ frames' = frames
    BY DEF ProcessPageMigrationRspFromCP, tableVars
  <1>4. uplink[g] # <<>> /\ Head(uplink[g]) = "migrate" /\ uplink' = [uplink EXCEPT ![g] = Tail(@)]
        /\ Under("migrate", g) # 0
    BY <1>1, <1>2, <1>3, AnswerUnder
  <1>5. /\ UNCHANGED <<pmcVars, toDriver, toPart, fromPart, toPMCSender, cp, gpuVars>>
        /\ UNCHANGED <<queueVars, accessVars, mmuVars>>
    BY <1>3 DEF ReturnUnchanged
  <1>6. driver \in DriverState /\ driver.numPagesMigratingACK \in Int
    BY <1>1, DriverIs
  <1>7. PICK n \in Int : n = driver.numPagesMigratingACK - 1
    BY <1>6
  <1>8. OnePage # "nil" /\ g = req.to /\ Under("migrate", g) = 1
    BY <1>1, <1>4 DEF Driven, Paging, One
  <1>11. Count("migrate") = Len(ToMove) + 1 /\ Len(ToMove) \in Nat
    BY <1>1, <1>8, DriverIs DEF Driven, Paging, One
  <1>12. Phase = "migrate" /\ n = Len(ToMove)
    <2>1. Phase = "migrate"
      BY <1>1, <1>11 DEF Driven, Phased
    <2> QED BY <1>7, <1>11, <2>1, CountIs
  <1>13. Handling /\ Legal(req)
    <2>1. Handling
      BY <1>12, PhaseIs DEF PhaseFacts
    <2> QED BY <1>1, <2>1 DEF Driven, Phased
  <1>14. \A h \in GPU : h # g => Under("migrate", h) = 0
    BY <1>1, <1>8 DEF Driven, Paging, One
  <1>15. \A k \in Sweeps : Count(k) = 0 /\ \A h \in GPU : Under(k, h) = 0
    BY <1>1, <1>2, <1>12, SweepIs DEF Driven
  <1>16. \A k \in Kinds : \A h \in GPU : Before(k, h) \in Nat /\ Under(k, h) \in Nat
    BY <1>1, UnderIs
  <1>17. \A h \in GPU : Halted(h) <=> h \in req.accessing
    BY <1>1, <1>12 DEF Driven, StagesMatch, StoppedNow
  <1>18. \A l \in {"launch", "flush", "copy"} : l \in Kinds /\ l \notin {"migrate", "gpuRestart"}
    BY KindsAre
  <1>9. CASE n # 0
    <2>1. driver' = [driver EXCEPT !.numPagesMigratingACK = n, !.isCurrentlyMigratingOnePage = "nil"]
      BY <1>7, <1>9 DEF ProcessPageMigrationRspFromCP, LastAnswer
    <2>2. driver' \in DriverState
      BY <1>6, <2>1, DriverUpdates
    <2>3. driver'.numPagesMigratingACK = n /\ driver'.requestsToSend = driver.requestsToSend /\ req' = req
          /\ Handling' = Handling /\ ToMove' = ToMove /\ OnePage' = "nil" /\ driver'.toSendToMMU = driver.toSendToMMU
          /\ driver'.numRDMADrainACK = driver.numRDMADrainACK /\ driver'.numRestartACK = driver.numRestartACK
          /\ driver'.numShootDownACK = driver.numShootDownACK
          /\ driver'.numRDMARestartACK = driver.numRDMARestartACK
      BY <1>6, <2>1 DEF DriverState, req, Handling, ToMove, OnePage
    <2>4. Count("migrate")' = n /\ \A l \in Sweeps : Count(l)' = Count(l)
      BY <2>3, CountIs, CountIsNext DEF Sweeps
    <2>5. Taken(g, "migrate")
      BY <1>1, <1>2, <1>4, <1>5, <2>3, TakesAnswer
    <2>6. \A h \in GPU : Under("migrate", h)' = 0
      BY <1>2, <1>8, <1>14, <2>5 DEF Taken
    <2>7. \A l \in Kinds : \A h \in GPU : l # "migrate" => Under(l, h)' = Under(l, h)
      BY <2>5 DEF Taken
    <2>8. \A l \in Sweeps : Count(l)' = 0 /\ \A h \in GPU : Under(l, h)' = 0
      BY <1>2, <1>15, <2>4, <2>7, KindsAre
    <2>9. Phased' /\ Phase' = "migrate"
      <3>1. Legal(req)'
        BY <1>13, <2>3 DEF Legal
      <3>2. PICK G \in SUBSET GPU : G = {}
        OBVIOUS
      <3> QED BY <1>2, <1>9, <1>13, <2>3, <2>4, <2>8, <3>1, <3>2, PhasedGoes
    <2>10. Paging'
      <3>1. Count("migrate")' = Len(ToMove') + One(OnePage' # "nil")
        BY <1>11, <1>12, <2>3, <2>4 DEF One
      <3>2. \A h \in GPU : Under("migrate", h)' = One(OnePage' # "nil" /\ h = req'.to)
        BY <2>3, <2>6 DEF One
      <3> QED BY <1>1, <1>3, <1>12, <2>3, <3>1, <3>2 DEF Driven, Paging
    <2>11. StagesMatch'
      BY <1>17, <2>3, <2>5, <2>9 DEF StagesMatch, StoppedNow, Taken
    <2>12. Queued'
      BY <1>1, <1>3, <1>5, <1>18, <2>7, QueuedKept
    <2>13. Asking'
      BY <1>1, <1>5, <1>12, <2>3, <2>9, PhaseAsks DEF Driven, Asking, mmuVars, gpuVars, Legal
    <2>14. Ordered'
      BY <1>1, <1>5, <2>3 DEF Ordered, CommandFor, OfType
    <2>15. Typed'
      <3>1. pageTable' \in [Page -> GPU] /\ frames' \in [GPU -> [Page -> Nat]]
        BY <1>1, <1>3 DEF Typed
      <3> QED BY <1>1, <1>3, <1>4, <2>2, <3>1, AnswerTyped
    <2> QED BY <2>5, <2>9, <2>10, <2>11, <2>12, <2>13, <2>14, <2>15 DEF Controlled, Driven, Taken
  <1>10. CASE n = 0
    <2>1. PICK r \in PageMigrationReq : r = req
      BY <1>13 DEF Legal
    <2>2. PICK G \in SUBSET GPU : G = r.accessing
      BY DEF PageMigrationReq
    <2>3. IsFiniteSet(G) /\ G # {}
      BY <1>13, <2>1, <2>2, DriverAssumption, FS_Subset DEF Legal
    <2>4. PICK c \in Int : c = Cardinality(G)
      BY <2>3, FS_CardinalityType
    <2>5. /\ ToEach("gpuRestart", G) \in Seq(Command)
          /\ \A k : \A h \in GPU : Number(ToEach("gpuRestart", G), CommandFor(k, h)) = One(k = "gpuRestart" /\ h \in G)
          /\ \A i \in DOMAIN ToEach("gpuRestart", G) : ToEach("gpuRestart", G)[i].type = "gpuRestart"
      <3>1. "gpuRestart" \in Plain
        BY DEF Plain
      <3> QED BY <3>1, ToEachIs
    <2>6. PICK s \in Seq(Command) : s = ToEach("gpuRestart", G)
      BY <2>5
    <2>7. /\ \A k : \A h \in GPU : Number(s, CommandFor(k, h)) = One(k = "gpuRestart" /\ h \in G)
          /\ \A i \in DOMAIN s : s[i].type = "gpuRestart"
      BY <2>5, <2>6
    <2>8. PICK q \in Seq(Command) : q = driver.requestsToSend \o s
      BY <1>1, DriverIs, ConcatAt
    <2>9. driver' = [driver EXCEPT !.numPagesMigratingACK = n, !.isCurrentlyMigratingOnePage = "nil",
                                   !.requestsToSend = q, !.numRestartACK = c, !.toSendToMMU = TRUE]
      <3> DEFINE m == driver.numRestartACK + Cardinality(r.accessing)
                 z == driver.requestsToSend \o ToEach("gpuRestart", r.accessing)
      <3>1. driver' = [driver EXCEPT !.numPagesMigratingACK = n, !.isCurrentlyMigratingOnePage = "nil",
                                     !.requestsToSend = z, !.numRestartACK = m, !.toSendToMMU = TRUE]
        BY <1>7, <1>10, <2>1 DEF ProcessPageMigrationRspFromCP, LastAnswer, req
      <3>2. z = q
        BY <2>2, <2>6, <2>8
      <3>3. driver.numRestartACK = 0
        BY <1>2, <1>15, CountIs
      <3>4. m = c
        BY <2>2, <2>4, <3>3
      <3> QED BY <3>1, <3>2, <3>4
    <2>10. driver' \in DriverState
      BY <1>6, <2>9, DriverUpdates
    <2>11. driver'.numPagesMigratingACK = 0 /\ driver'.requestsToSend = driver.requestsToSend \o s /\ req' = req
          /\ Handling' = Handling /\ ToMove' = ToMove /\ OnePage' = "nil" /\ driver'.toSendToMMU = TRUE
          /\ driver'.numRDMADrainACK = driver.numRDMADrainACK /\ driver'.numRestartACK = c
          /\ driver'.numShootDownACK = driver.numShootDownACK
          /\ driver'.numRDMARestartACK = driver.numRDMARestartACK
      BY <1>6, <1>10, <2>8, <2>9 DEF DriverState, req, Handling, ToMove, OnePage
    <2>12. Count("migrate")' = 0 /\ Count("gpuRestart")' = c /\ \A l \in Sweeps : l # "gpuRestart" => Count(l)' = Count(l)
      BY <2>11, CountIs, CountIsNext DEF Sweeps
    <2>13. Answered(g, "migrate", s)
      BY <1>1, <1>2, <1>4, <1>5, <2>11, Returns
    <2>14. \A h \in GPU : /\ Number(s, CommandFor("migrate", h)) = 0
                          /\ Number(s, CommandFor("gpuRestart", h)) = One(h \in G)
      BY <2>7 DEF One
    <2>15. \A k \in Kinds : \A h \in GPU : k \notin {"migrate", "gpuRestart"} => Under(k, h)' = Under(k, h)
      BY <1>16, <2>7, <2>13 DEF Answered, One
    <2>16. ASSUME NEW h \in GPU PROVE Under("migrate", h)' = 0
      <3>1. CASE h = g
        <4>1. Under("migrate", g)' = Under("migrate", g) - 1 + Number(s, CommandFor("migrate", g))
          BY <2>13 DEF Answered
        <4> QED BY <1>8, <2>14, <3>1, <4>1
      <3>2. CASE h # g
        <4>1. Under("migrate", h)' = Under("migrate", h) + Number(s, CommandFor("migrate", h))
          BY <1>2, <2>13, <3>2 DEF Answered
        <4> QED BY <1>14, <2>14, <3>2, <4>1
      <3> QED BY <3>1, <3>2
    <2>17. ASSUME NEW h \in GPU
           PROVE  Under("gpuRestart", h)' = One(h \in G) /\ Before("gpuRestart", h)' = One(h \in G)
      <3>1. /\ Under("gpuRestart", h)' = Under("gpuRestart", h) + Number(s, CommandFor("gpuRestart", h))
            /\ Before("gpuRestart", h)' = Before("gpuRestart", h) + Number(s, CommandFor("gpuRestart", h))
        BY <1>2, <2>13 DEF Answered
      <3>2. Under("gpuRestart", h) = 0 /\ Before("gpuRestart", h) = 0
        <4>1. /\ Before("gpuRestart", h) \in Nat /\ Inside("gpuRestart", h) \in Nat /\ After("gpuRestart", h) \in Nat
              /\ Under("gpuRestart", h) = Before("gpuRestart", h) + Inside("gpuRestart", h) + After("gpuRestart", h)
          BY <1>1, <1>2, UnderIs
        <4>2. Under("gpuRestart", h) = 0
          BY <1>2, <1>15
        <4> QED BY <4>1, <4>2
      <3> QED BY <2>14, <3>1, <3>2 DEF One
    <2>18. \A l \in Sweeps : l # "gpuRestart" => Count(l)' = 0 /\ \A h \in GPU : Under(l, h)' = 0
      BY <1>2, <1>15, <2>12, <2>15, KindsAre
    <2>19. Phased' /\ Phase' = "gpuRestart"
      <3>1. Legal(req)'
        BY <1>13, <2>11 DEF Legal
      <3>2. \A h \in G : h \in req'.accessing
        BY <2>1, <2>2, <2>11
      <3> QED BY <1>2, <1>13, <2>3, <2>4, <2>11, <2>12, <2>17, <2>18, <3>1, <3>2, PhasedGoes
    <2>20. Paging'
      <3>1. Count("migrate")' = Len(ToMove') + One(OnePage' # "nil")
        BY <1>10, <1>12, <2>11, <2>12 DEF One
      <3>2. \A h \in GPU : Under("migrate", h)' = One(OnePage' # "nil" /\ h = req'.to)
        BY <2>11, <2>16 DEF One
      <3> QED BY <2>11, <2>19, <3>1, <3>2 DEF Paging
    <2>21. StagesMatch'
      <3> SUFFICES ASSUME NEW h \in GPU PROVE Halted(h)' <=> StoppedNow(h)'
        BY DEF StagesMatch
      <3>1. Halted(h)' <=> h \in G
        BY <1>17, <2>1, <2>2, <2>13 DEF Answered
      <3>2. StoppedNow(h)' <=> Before("gpuRestart", h)' = 1
        BY <2>19 DEF StoppedNow
      <3> QED BY <2>17, <3>1, <3>2 DEF One
    <2>22. Queued'
      BY <1>1, <1>3, <1>5, <1>18, <2>15, QueuedKept
    <2>23. Asking'
      BY <1>1, <1>5, <1>12, <2>11, <2>19, PhaseAsks DEF Driven, Asking, mmuVars, gpuVars, Legal
    <2>24. Ordered'
      <3>1. \A h \in GPU : Under("flush", h) = 0
        BY <1>1, <1>12, PhaseAsks
      <3> QED BY <1>1, <1>5, <2>7, <2>11, <3>1, OrderedGrown
    <2>25. Typed'
      <3>1. pageTable' \in [Page -> GPU] /\ frames' \in [GPU -> [Page -> Nat]]
        BY <1>1, <1>3 DEF Typed
      <3> QED BY <1>1, <1>3, <1>4, <2>10, <3>1, AnswerTyped
    <2> QED BY <2>13, <2>19, <2>20, <2>21, <2>22, <2>23, <2>24, <2>25 DEF Controlled, Driven, Answered
  <1> QED BY <1>9, <1>10

-----------------------------------------------------------------------------
(* A GPU has started: with the last answer the RDMA engines start. *)
LEMMA RestartAnswered ==
    ASSUME Controlled, NEW g \in GPU, HandleGPURestartRsp(g)
    PROVE  Controlled'
  <1>1. Typed /\ Staged /\ Driven /\ Ordered /\ Answering
    BY DEF Controlled
  <1>2. /\ "gpuRestart" \in Kinds /\ "gpuRestart" \in Sweeps /\ "rdmaRestart" \in Kinds /\ "rdmaRestart" \in Sweeps
        /\ "migrate" \in Kinds /\ "migrate" \notin Sweeps
    BY KindsAre DEF Sweeps
  <1>3. Return(g, "gpuRestart") /\ ReturnUnchanged /\ pageTable' = pageTable /\ frames' = frames
    BY DEF HandleGPURestartRsp, tableVars
  <1>4. uplink[g] # <<>> /\ Head(uplink[g]) = "gpuRestart" /\ uplink' = [uplink EXCEPT ![g] = Tail(@)]
        /\ After("gpuRestart", g) # 0 /\ Under("gpuRestart", g) # 0
    BY <1>1, <1>2, <1>3, AnswerUnder
  <1>5. /\ UNCHANGED <<pmcVars, toDriver, toPart, fromPart, toPMCSender, cp, gpuVars>>
        /\ UNCHANGED <<queueVars, accessVars, mmuVars>>
    BY <1>3 DEF ReturnUnchanged
  <1>6. driver \in DriverState /\ driver.numRestartACK \in Int
    BY <1>1, DriverIs
  <1>7. PICK n \in Int : n = driver.numRestartACK - 1
    BY <1>6
  <1>8. n = Count("gpuRestart") - 1
    BY <1>7, CountIs
  <1>9. CASE n # 0
    <2>1. driver' = [driver EXCEPT !.numRestartACK = n]
      BY <1>7, <1>9 DEF HandleGPURestartRsp, LastAnswer
    <2>2. driver' \in DriverState
      BY <1>6, <2>1, DriverFields
    <2>3. driver'.numRestartACK = n /\ driver'.requestsToSend = driver.requestsToSend /\ req' = req
          /\ Handling' = Handling /\ ToMove' = ToMove /\ OnePage' = OnePage /\ driver'.toSendToMMU = driver.toSendToMMU
          /\ driver'.numRDMADrainACK = driver.numRDMADrainACK /\ driver'.numShootDownACK = driver.numShootDownACK
          /\ driver'.numPagesMigratingACK = driver.numPagesMigratingACK
          /\ driver'.numRDMARestartACK = driver.numRDMARestartACK
      BY <1>6, <2>1 DEF DriverState, req, Handling, ToMove, OnePage
    <2>4. Count("gpuRestart")' = n /\ \A l \in Sweeps \cup {"migrate"} : l # "gpuRestart" => Count(l)' = Count(l)
      BY <2>3, CountIs, CountIsNext DEF Sweeps
    <2> QED BY <1>2, <1>3, <1>8, <1>9, <2>2, <2>3, <2>4, NotLast
  <1>10. CASE n = 0
    <2>1. /\ Phase = "gpuRestart" /\ Under("gpuRestart", g) = 1 /\ Handling
          /\ \A h \in GPU : h # g => Under("gpuRestart", h) = 0
      BY <1>1, <1>2, <1>4, <1>8, <1>10, SweepAnswered DEF Driven
    <2>2. Legal(req)
      BY <1>1, <2>1 DEF Driven, Phased
    <2>3. PICK G \in SUBSET GPU : G = GPU
      OBVIOUS
    <2>4. IsFiniteSet(G) /\ G # {}
      BY <2>3, DriverAssumption
    <2>5. PICK c \in Int : c = Cardinality(G)
      BY <2>4, FS_CardinalityType
    <2>6. /\ ToEach("rdmaRestart", G) \in Seq(Command)
          /\ \A k : \A h \in GPU : Number(ToEach("rdmaRestart", G), CommandFor(k, h)) = One(k = "rdmaRestart" /\ h \in G)
          /\ \A i \in DOMAIN ToEach("rdmaRestart", G) : ToEach("rdmaRestart", G)[i].type = "rdmaRestart"
      <3>1. "rdmaRestart" \in Plain
        BY DEF Plain
      <3> QED BY <3>1, ToEachIs
    <2>7. PICK s \in Seq(Command) : s = ToEach("rdmaRestart", G)
      BY <2>6
    <2>8. /\ \A k : \A h \in GPU : Number(s, CommandFor(k, h)) = One(k = "rdmaRestart" /\ h \in G)
          /\ \A i \in DOMAIN s : s[i].type = "rdmaRestart"
      BY <2>6, <2>7
    <2>9. PICK q \in Seq(Command) : q = driver.requestsToSend \o s
      BY <1>1, DriverIs, ConcatAt
    <2>18. \A k \in Sweeps : k # "gpuRestart" => Count(k) = 0 /\ \A h \in GPU : Under(k, h) = 0
      BY <1>1, <2>1, SweepIs DEF Driven
    <2>10. driver' = [driver EXCEPT !.numRestartACK = n, !.requestsToSend = q, !.numRDMARestartACK = c]
      <3> DEFINE m == driver.numRDMARestartACK + Cardinality(GPU)
                 z == driver.requestsToSend \o ToEach("rdmaRestart", GPU)
      <3>1. driver' = [driver EXCEPT !.numRestartACK = n, !.requestsToSend = z, !.numRDMARestartACK = m]
        BY <1>7, <1>10 DEF HandleGPURestartRsp, LastAnswer
      <3>2. z = q
        BY <2>3, <2>7, <2>9
      <3>3. driver.numRDMARestartACK = 0
        BY <1>2, <2>18, CountIs
      <3>4. m = c
        BY <2>3, <2>5, <3>3
      <3> QED BY <3>1, <3>2, <3>4
    <2>11. driver' \in DriverState
      BY <1>6, <2>10, DriverUpdates
    <2>12. driver'.numRestartACK = 0 /\ driver'.requestsToSend = driver.requestsToSend \o s /\ req' = req
          /\ Handling' = Handling /\ ToMove' = ToMove /\ OnePage' = OnePage /\ driver'.toSendToMMU = driver.toSendToMMU
          /\ driver'.numRDMADrainACK = driver.numRDMADrainACK /\ driver'.numShootDownACK = driver.numShootDownACK
          /\ driver'.numPagesMigratingACK = driver.numPagesMigratingACK
          /\ driver'.numRDMARestartACK = c
      BY <1>6, <1>10, <2>9, <2>10 DEF DriverState, req, Handling, ToMove, OnePage
    <2>13. Count("gpuRestart")' = 0 /\ Count("rdmaRestart")' = c /\ Count("migrate")' = Count("migrate")
           /\ Count("drain")' = Count("drain") /\ Count("shootdown")' = Count("shootdown")
      BY <2>12, CountIs, CountIsNext
    <2>14. Answered(g, "gpuRestart", s)
      BY <1>1, <1>2, <1>4, <1>5, <2>12, Returns
    <2>15. \A h \in GPU : /\ Number(s, CommandFor("gpuRestart", h)) = 0
                          /\ Number(s, CommandFor("rdmaRestart", h)) = One(h \in G)
      BY <2>8 DEF One
    <2>16. \A k \in Kinds : \A h \in GPU : Before(k, h) \in Nat /\ Under(k, h) \in Nat
      BY <1>1, UnderIs
    <2>17. \A k \in Kinds : \A h \in GPU : k \notin {"gpuRestart", "rdmaRestart"} => Under(k, h)' = Under(k, h)
      BY <2>8, <2>14, <2>16 DEF Answered, One
    <2>19. ASSUME NEW h \in GPU PROVE Under("gpuRestart", h)' = 0
      <3>1. CASE h = g
        <4>1. Under("gpuRestart", g)' = Under("gpuRestart", g) - 1 + Number(s, CommandFor("gpuRestart", g))
          BY <2>14 DEF Answered
        <4> QED BY <2>1, <2>15, <3>1, <4>1
      <3>2. CASE h # g
        <4>1. Under("gpuRestart", h)' = Under("gpuRestart", h) + Number(s, CommandFor("gpuRestart", h))
          BY <1>2, <2>14, <3>2 DEF Answered
        <4> QED BY <2>1, <2>15, <3>2, <4>1
      <3> QED BY <3>1, <3>2
    <2>20. ASSUME NEW h \in GPU PROVE Under("rdmaRestart", h)' = One(h \in G)
      <3>1. Under("rdmaRestart", h)' = Under("rdmaRestart", h) + Number(s, CommandFor("rdmaRestart", h))
        BY <1>2, <2>14 DEF Answered
      <3>2. Under("rdmaRestart", h) = 0
        BY <1>2, <2>18
      <3> QED BY <2>15, <3>1, <3>2 DEF One
    <2>21. \A l \in Sweeps : l # "rdmaRestart" => Count(l)' = 0 /\ \A h \in GPU : Under(l, h)' = 0
      BY <2>13, <2>17, <2>18, <2>19, KindsAre DEF Sweeps
    <2>22. Count("migrate") = 0 /\ \A h \in GPU : Under("migrate", h) = 0
      BY <1>1, <2>1, MoveIs
    <2>23. Phased' /\ Phase' = "rdmaRestart"
      <3>1. Legal(req)'
        BY <2>2, <2>12 DEF Legal
      <3> QED BY <1>2, <2>1, <2>4, <2>5, <2>12, <2>13, <2>20, <2>21, <2>22, <3>1, PhasedGoes
    <2>24. Paging'
      <3>1. \A h \in GPU : Under("migrate", h)' = Under("migrate", h)
        BY <1>2, <2>17
      <3> QED BY <1>1, <2>12, <2>13, <2>23, <3>1 DEF Driven, Paging
    <2>25. StagesMatch'
      <3> SUFFICES ASSUME NEW h \in GPU PROVE ~Halted(h)' /\ ~StoppedNow(h)'
        BY DEF StagesMatch
      <3>1. Before("gpuRestart", h) = 0
        <4>1. /\ Before("gpuRestart", h) \in Nat /\ Inside("gpuRestart", h) \in Nat /\ After("gpuRestart", h) \in Nat
              /\ Under("gpuRestart", h) = Before("gpuRestart", h) + Inside("gpuRestart", h) + After("gpuRestart", h)
          BY <1>1, <1>2, UnderIs
        <4>2. CASE h = g
          BY <1>4, <2>1, <4>1, <4>2
        <4>3. CASE h # g
          BY <2>1, <4>1, <4>3
        <4> QED BY <4>2, <4>3
      <3>2. ~Halted(h)
        BY <1>1, <2>1, <3>1 DEF Driven, StagesMatch, StoppedNow
      <3> QED BY <2>14, <2>23, <3>2 DEF Answered, StoppedNow
    <2>26. Queued'
      <3>1. \A l \in {"launch", "flush", "copy"} : l \in Kinds /\ l \notin {"gpuRestart", "rdmaRestart"}
        BY KindsAre
      <3> QED BY <1>1, <1>3, <1>5, <2>17, <3>1, QueuedKept
    <2>27. Asking'
      BY <1>1, <1>5, <2>1, <2>12, <2>23 DEF Driven, Asking, mmuVars, gpuVars, Legal
    <2>28. Ordered'
      BY <1>1, <1>5, <2>8, <2>12, OrderedGrown
    <2>29. Typed'
      <3>1. pageTable' \in [Page -> GPU] /\ frames' \in [GPU -> [Page -> Nat]]
        BY <1>1, <1>3 DEF Typed
      <3> QED BY <1>1, <1>3, <1>4, <2>11, <3>1, AnswerTyped
    <2> QED BY <2>14, <2>23, <2>24, <2>25, <2>26, <2>27, <2>28, <2>29 DEF Controlled, Driven, Answered
  <1> QED BY <1>9, <1>10

(* The RDMA engine of a GPU has started: the last answer ends the migration. *)
LEMMA RDMARestartAnswered ==
    ASSUME Controlled, NEW g \in GPU, ProcessRDMARestartRspToDriver(g)
    PROVE  Controlled'
  <1>1. Typed /\ Staged /\ Driven /\ Ordered /\ Answering
    BY DEF Controlled
  <1>2. "rdmaRestart" \in Kinds /\ "rdmaRestart" \in Sweeps /\ "migrate" \in Kinds /\ "migrate" \notin Sweeps
    BY KindsAre DEF Sweeps
  <1>3. Return(g, "rdmaRestart") /\ ReturnUnchanged /\ pageTable' = pageTable /\ frames' = frames
    BY DEF ProcessRDMARestartRspToDriver, tableVars
  <1>4. uplink[g] # <<>> /\ Head(uplink[g]) = "rdmaRestart" /\ uplink' = [uplink EXCEPT ![g] = Tail(@)]
        /\ Under("rdmaRestart", g) # 0
    BY <1>1, <1>2, <1>3, AnswerUnder
  <1>5. /\ UNCHANGED <<pmcVars, toDriver, toPart, fromPart, toPMCSender, cp, gpuVars>>
        /\ UNCHANGED <<queueVars, accessVars, mmuVars>>
    BY <1>3 DEF ReturnUnchanged
  <1>6. driver \in DriverState /\ driver.numRDMARestartACK \in Int
    BY <1>1, DriverIs
  <1>7. PICK n \in Int : n = driver.numRDMARestartACK - 1
    BY <1>6
  <1>8. n = Count("rdmaRestart") - 1
    BY <1>7, CountIs
  <1>9. CASE n # 0
    <2>1. driver' = [driver EXCEPT !.numRDMARestartACK = n]
      BY <1>7, <1>9 DEF ProcessRDMARestartRspToDriver, LastAnswer
    <2>2. driver' \in DriverState
      BY <1>6, <2>1, DriverFields
    <2>3. driver'.numRDMARestartACK = n /\ driver'.requestsToSend = driver.requestsToSend /\ req' = req
          /\ Handling' = Handling /\ ToMove' = ToMove /\ OnePage' = OnePage /\ driver'.toSendToMMU = driver.toSendToMMU
          /\ driver'.numRDMADrainACK = driver.numRDMADrainACK /\ driver'.numShootDownACK = driver.numShootDownACK
          /\ driver'.numPagesMigratingACK = driver.numPagesMigratingACK
          /\ driver'.numRestartACK = driver.numRestartACK
      BY <1>6, <2>1 DEF DriverState, req, Handling, ToMove, OnePage
    <2>4. Count("rdmaRestart")' = n /\ \A l \in Sweeps \cup {"migrate"} : l # "rdmaRestart" => Count(l)' = Count(l)
      BY <2>3, CountIs, CountIsNext DEF Sweeps
    <2> QED BY <1>2, <1>3, <1>8, <1>9, <2>2, <2>3, <2>4, NotLast
  <1>10. CASE n = 0
    <2>1. /\ Phase = "rdmaRestart" /\ Under("rdmaRestart", g) = 1 /\ Handling
          /\ \A h \in GPU : h # g => Under("rdmaRestart", h) = 0
      BY <1>1, <1>2, <1>4, <1>8, <1>10, SweepAnswered DEF Driven
    <2>2. driver' = [driver EXCEPT !.numRDMARestartACK = n, !.currentPageMigrationReq = NoReq,
                                   !.isCurrentlyHandlingMigrationReq = FALSE]
      BY <1>7, <1>10 DEF ProcessRDMARestartRspToDriver, LastAnswer
    <2>3. driver' \in DriverState
      BY <1>6, <2>2, DriverUpdates
    <2>4. driver'.numRDMARestartACK = 0 /\ driver'.requestsToSend = driver.requestsToSend
          /\ Handling' = FALSE /\ ToMove' = ToMove /\ OnePage' = OnePage /\ driver'.toSendToMMU = driver.toSendToMMU
          /\ driver'.numRDMADrainACK = driver.numRDMADrainACK /\ driver'.numShootDownACK = driver.numShootDownACK
          /\ driver'.numPagesMigratingACK = driver.numPagesMigratingACK
          /\ driver'.numRestartACK = driver.numRestartACK
      BY <1>6, <1>10, <2>2 DEF DriverState, Handling, ToMove, OnePage
    <2>5. Count("rdmaRestart")' = 0 /\ \A l \in Sweeps \cup {"migrate"} : l # "rdmaRestart" => Count(l)' = Count(l)
      BY <2>4, CountIs, CountIsNext DEF Sweeps
    <2>6. Taken(g, "rdmaRestart")
      BY <1>1, <1>2, <1>4, <1>5, <2>4, TakesAnswer
    <2>7. \A l \in Kinds : \A h \in GPU : l # "rdmaRestart" => Under(l, h)' = Under(l, h)
      BY <2>6 DEF Taken
    <2>8. \A h \in GPU : Under("rdmaRestart", h)' = 0
      BY <1>2, <2>1, <2>6 DEF Taken
    <2>9. \A l \in Sweeps : Count(l)' = 0 /\ \A h \in GPU : Under(l, h)' = 0
      <3>1. \A k \in Sweeps : k # "rdmaRestart" => Count(k) = 0 /\ \A h \in GPU : Under(k, h) = 0
        BY <1>1, <2>1, SweepIs DEF Driven
      <3> QED BY <2>5, <2>7, <2>8, <3>1, KindsAre
    <2>10. Count("migrate") = 0 /\ OnePage = "nil" /\ ToMove = <<>> /\ \A h \in GPU : Under("migrate", h) = 0
      BY <1>1, <2>1, MoveIs
    <2>11. Phased' /\ Phase' = "idle"
      <3>1. PICK G \in SUBSET GPU : G = {}
        OBVIOUS
      <3>2. "idle" \notin Sweeps
        BY DEF Sweeps
      <3> QED BY <1>2, <2>4, <2>5, <2>9, <2>10, <3>1, <3>2, PhasedGoes
    <2>12. Paging'
      <3>1. \A h \in GPU : Under("migrate", h)' = 0
        BY <1>2, <2>7, <2>10
      <3>2. Count("migrate")' = Len(ToMove') + One(OnePage' # "nil")
        BY <1>1, <1>2, <2>4, <2>5 DEF Driven, Paging
      <3> QED BY <2>4, <2>10, <2>11, <3>1, <3>2 DEF Paging, One
    <2>13. StagesMatch'
      BY <1>1, <2>1, <2>6, <2>11 DEF Driven, StagesMatch, StoppedNow, Taken
    <2>14. Queued'
      <3>1. \A l \in {"launch", "flush", "copy"} : l \in Kinds /\ l # "rdmaRestart"
        BY KindsAre
      <3> QED BY <1>1, <1>3, <1>5, <2>7, <3>1, QueuedKept
    <2>15. Asking'
      BY <1>1, <1>5, <2>1, <2>4, <2>11 DEF Driven, Asking, mmuVars, gpuVars, Legal
    <2>16. Ordered'
      BY <1>1, <1>5, <2>4 DEF Ordered, CommandFor, OfType
    <2>17. Typed'
      <3>1. pageTable' \in [Page -> GPU] /\ frames' \in [GPU -> [Page -> Nat]]
        BY <1>1, <1>3 DEF Typed
      <3> QED BY <1>1, <1>3, <1>4, <2>3, <3>1, AnswerTyped
    <2> QED BY <2>6, <2>11, <2>12, <2>13, <2>14, <2>15, <2>16, <2>17 DEF Controlled, Driven, Taken
  <1> QED BY <1>9, <1>10

-----------------------------------------------------------------------------
(* Steps that leave a migration as it is. *)

(* The commands of a migration are as before. *)
LEMMA MigrationKept ==
    ASSUME Typed, Driven, DriverKept, pageTable' = pageTable,
           \A k \in Sweeps \cup {"migrate"} : \A h \in GPU : Under(k, h)' = Under(k, h),
           \A k \in {"shootdown", "gpuRestart"} : \A h \in GPU :
               Before(k, h)' = Before(k, h) /\ Inside(k, h)' = Inside(k, h),
           \A h \in GPU : Halted(h)' = Halted(h)
    PROVE  /\ Phased' /\ Paging' /\ StagesMatch'
           /\ Phase' = Phase /\ req' = req /\ Handling' = Handling
  <1>1. /\ Phase' = Phase /\ \A k : Count(k)' = Count(k)
        /\ req' = req /\ OnePage' = OnePage /\ Handling' = Handling /\ ToMove' = ToMove
    BY DEF DriverKept, Phase, Count, req, OnePage, Handling, ToMove
  <1>2. \A k \in Sweeps : Due(k)' = Due(k)
    BY DEF Due
  <1>3. Phased'
    <2>1. \A k \in Sweeps : Count(k)' = Cardinality(Due(k))'
      BY <1>1, <1>2 DEF Driven, Phased
    <2>2. \A k \in Sweeps : \A h \in GPU : Under(k, h)' \in {0, 1}
      BY DEF Driven, Phased
    <2>3. \A k \in Sweeps \cup {"migrate"} : (Count(k)' # 0 <=> Phase' = k)
      BY <1>1 DEF Driven, Phased
    <2>4. Handling' => Legal(req)'
      BY <1>1 DEF Driven, Phased, Legal
    <2>5. \A k \in {"shootdown", "gpuRestart"} : \A h \in Due(k)' : h \in req'.accessing
      BY <1>1, <1>2, KindsAre DEF Driven, Phased
    <2> QED BY <2>1, <2>2, <2>3, <2>4, <2>5 DEF Phased
  <1>4. Paging'
    <2>1. \A h \in GPU : Under("migrate", h)' = Under("migrate", h)
      OBVIOUS
    <2> QED BY <1>1, <2>1 DEF Driven, Paging
  <1>5. StagesMatch'
    BY <1>1 DEF Driven, StagesMatch, StoppedNow
  <1> QED BY <1>1, <1>3, <1>4, <1>5

(* What changes when the driver sends s. *)
Sent(s) ==
    /\ Staged' /\ Answering' /\ (\A h \in GPU : Halted(h)' = Halted(h))
    /\ \A k \in Kinds, h \in GPU : Inside(k, h)' = Inside(k, h)
    /\ \A k \in Kinds : \A h \in GPU : Before(k, h)' = Before(k, h) + Number(s, CommandFor(k, h))
    /\ \A k \in Kinds : \A h \in GPU : Under(k, h)' = Under(k, h) + Number(s, CommandFor(k, h))

(* A driver that adds commands to its list asks for those commands only. *)
LEMMA Asks ==
    ASSUME Typed, Staged, Answering, NEW s \in Seq(Command), driver'.requestsToSend = driver.requestsToSend \o s,
           UNCHANGED <<pmcVars, cpVars>>
    PROVE  Sent(s)
  <1>1. toDriver' = toDriver /\ toPart' = toPart /\ fromPart' = fromPart /\ paused' = paused /\ cp' = cp
        /\ uplink' = uplink /\ UNCHANGED <<pmcVars, toPMCSender, dispatching>>
    BY DEF cpVars, portVars, gpuVars
  <1>2. /\ Staged' /\ \A h \in GPU : Halted(h)' = Halted(h)
        /\ \A k \in Kinds, h \in GPU : Inside(k, h)' = Inside(k, h)
    BY <1>1, DriverKeeps
  <1>3. \A k : \A h \in GPU : Before(k, h)' = Before(k, h) + Number(s, CommandFor(k, h))
    BY <1>1, BeforeGrown
  <1>4. \A k, h : After(k, h)' = After(k, h)
    BY <1>1, AfterSame
  <1>5. Answering'
    BY <1>1 DEF Answering, pmcVars, migrationVars
  <1>6. \A k : \A h \in GPU : Number(s, CommandFor(k, h)) \in Nat
    BY NumberIn
  <1>7. ASSUME NEW k \in Kinds, NEW h \in GPU PROVE Under(k, h)' = Under(k, h) + Number(s, CommandFor(k, h))
    <2>1. /\ Before(k, h) \in Nat /\ Inside(k, h) \in Nat /\ After(k, h) \in Nat
          /\ Under(k, h) = Before(k, h) + Inside(k, h) + After(k, h)
      BY UnderIs
    <2>2. Under(k, h)' = Before(k, h)' + Inside(k, h)' + After(k, h)'
      BY UnderIsNext
    <2>3. Before(k, h)' = Before(k, h) + Number(s, CommandFor(k, h)) /\ Inside(k, h)' = Inside(k, h)
          /\ Number(s, CommandFor(k, h)) \in Nat /\ After(k, h)' = After(k, h)
      BY <1>2, <1>3, <1>4, <1>6
    <2> QED BY <2>1, <2>2, <2>3
  <1> QED BY <1>2, <1>3, <1>5, <1>7 DEF Sent

(* The MMU asks for a migration. *)
LEMMA MMUAsks ==
    ASSUME Controlled, NEW g \in GPU, NEW host \in GPU, NEW pages \in SUBSET Page, MMURequests(g, host, pages)
    PROVE  Controlled'
  <1>1. Typed /\ Staged /\ Driven /\ Ordered /\ Answering
    BY DEF Controlled
  <1>2. Typed'
    BY <1>1, KernelsTyped
  <1>3. UNCHANGED <<pmcVars, cpVars, queueVars, driver, pageTable, frames, accessVars>>
    BY DEF MMURequests, tableVars
  <1>4. /\ toDriver' = toDriver /\ uplink' = uplink /\ toPart' = toPart /\ fromPart' = fromPart /\ paused' = paused
        /\ cp' = cp /\ UNCHANGED <<pmcVars, toPMCSender, dispatching>> /\ driver' = driver
    BY <1>3 DEF cpVars, portVars, gpuVars
  <1>5. /\ Staged' /\ (\A h \in GPU : Halted(h)' = Halted(h))
        /\ \A k \in Kinds, h \in GPU : Inside(k, h)' = Inside(k, h)
    BY <1>1, <1>4, DriverKeeps
  <1>6. \A k, h : Before(k, h)' = Before(k, h) /\ After(k, h)' = After(k, h)
    BY <1>4, BeforeSame, AfterSame
  <1>7. \A k \in Kinds : \A h \in GPU : Under(k, h)' = Under(k, h)
    BY <1>5, <1>6 DEF Under
  <1>8. DriverKept
    BY <1>4 DEF DriverKept
  <1>9. Phased' /\ Paging' /\ StagesMatch' /\ Phase' = Phase /\ req' = req
    BY <1>1, <1>3, <1>5, <1>6, <1>7, <1>8, KindsAre, MigrationKept
  <1>10. Queued'
    BY <1>1, <1>3, <1>7, KindsAre, QueuedKept
  <1>11. PICK others \in SUBSET (GPU \ {g, host}) :
            LET q == [to |-> g, host |-> host, pages |-> pages, accessing |-> {g, host} \cup others]
            IN  toMMU' = <<q>> /\ mmuWaits' = q
    BY DEF MMURequests
  <1>12. PICK r : /\ r = [to |-> g, host |-> host, pages |-> pages, accessing |-> {g, host} \cup others]
                  /\ toMMU' = <<r>> /\ mmuWaits' = r
    BY <1>11
  <1>13. /\ r \in PageMigrationReq /\ r.pages # {} /\ r.to \in r.accessing /\ r.host \in r.accessing /\ r.to # r.host
         /\ r.to = g
    BY <1>12 DEF MMURequests, PageMigrationReq
  <1>14. r # NoReq
    <2>1. "nil" \notin GPU \/ r.pages # {}
      BY <1>13
    <2> QED BY <1>13 DEF NoReq
  <1>15. dispatching'[g] /\ mmuWaits = NoReq
    BY <1>4 DEF MMURequests
  <1>16. ~driver'.toSendToMMU /\ Phase' \in {"idle", "gpuRestart", "rdmaRestart"}
    BY <1>1, <1>4, <1>9, <1>15 DEF Driven, Asking
  <1>17. Asking'
    BY <1>12, <1>13, <1>14, <1>15, <1>16 DEF Asking, Legal
  <1>18. Ordered'
    BY <1>1, <1>4 DEF Ordered, CommandFor, OfType
  <1>19. Answering'
    BY <1>1, <1>4 DEF Answering, pmcVars, migrationVars
  <1> QED BY <1>2, <1>5, <1>9, <1>10, <1>17, <1>18, <1>19 DEF Controlled, Driven

(* A command of the queue starts. *)
LEMMA StartsCommand ==
    ASSUME Controlled, ProcessOneCommand
    PROVE  Controlled'
  <1>1. Typed /\ Staged /\ Driven /\ Ordered /\ Answering
    BY DEF Controlled
  <1>2. queue # <<>> /\ ~isRunning /\ isRunning' = TRUE
        /\ UNCHANGED <<pmcVars, cpVars, queue, pageTable, frames, accessVars, mmuVars>>
    BY DEF ProcessOneCommand, tableVars
  <1>3. PICK m \in QueueCommand : m = Head(queue)
    BY <1>1, <1>2 DEF Typed
  <1>4. m.type \in {"launch", "flush", "copy"} /\ m.page \in Page
    BY DEF QueueCommand
  <1>5. PICK t \in {"launch", "flush", "copy"} : t = m.type
    BY <1>4
  <1>6. PICK G \in SUBSET GPU : G = IF t = "copy" THEN {pageTable[m.page]} ELSE GPU
    BY <1>1, <1>4 DEF Typed
  <1>7. G # {} /\ (t = "copy" => \A h \in G : h = pageTable[m.page])
    BY <1>1, <1>4, <1>6 DEF Typed
  <1>8. reqs' = G /\ driver' = [driver EXCEPT !.requestsToSend = @ \o ToEach(t, G)]
    BY <1>3, <1>5, <1>6 DEF ProcessOneCommand
  <1>9. /\ ToEach(t, G) \in Seq(Command)
        /\ \A k : \A h \in GPU : Number(ToEach(t, G), CommandFor(k, h)) = One(k = t /\ h \in G)
        /\ \A i \in DOMAIN ToEach(t, G) : ToEach(t, G)[i].type = t
    <2>1. t \in Plain
      BY DEF Plain
    <2> QED BY <2>1, ToEachIs
  <1>10. PICK s \in Seq(Command) : s = ToEach(t, G)
    BY <1>9
  <1>11. /\ \A k : \A h \in GPU : Number(s, CommandFor(k, h)) = One(k = t /\ h \in G)
         /\ \A i \in DOMAIN s : s[i].type # "gpuRestart"
    <2>1. t # "gpuRestart"
      OBVIOUS
    <2> QED BY <1>9, <1>10, <2>1
  <1>12. PICK q \in Seq(Command) : q = driver.requestsToSend \o s
    BY <1>1, DriverIs, ConcatAt
  <1>13. driver \in DriverState /\ driver' = [driver EXCEPT !.requestsToSend = q]
    BY <1>1, <1>8, <1>10, <1>12, DriverIs
  <1>14. driver' \in DriverState
    BY <1>13, DriverFields
  <1>15. driver'.requestsToSend = driver.requestsToSend \o s /\ DriverKept
    BY <1>12, <1>13 DEF DriverState, DriverKept
  <1>16. Sent(s)
    BY <1>1, <1>2, <1>15, Asks
  <1>17. reqs = {} /\ mmuWaits = NoReq
    <2>1. reqs = {}
      BY <1>1, <1>2 DEF Driven, Queued
    <2> QED BY <1>1, <2>1, AskingRuns
  <1>18. \A k \in Kinds : \A h \in GPU : Before(k, h) \in Nat /\ Under(k, h) \in Nat
    BY <1>1, UnderIs
  <1>19. \A k \in Kinds : \A h \in GPU : k # t => Under(k, h)' = Under(k, h) /\ Before(k, h)' = Before(k, h)
    BY <1>11, <1>16, <1>18 DEF Sent, One
  <1>20. \A k \in {"launch", "flush", "copy"} : \A h \in GPU : Under(k, h) = 0
    BY <1>1, <1>17 DEF Driven, Queued, One
  <1>21. \A k \in Sweeps \cup {"migrate"} : k \in Kinds /\ k # t
    BY KindsAre DEF Sweeps
  <1>22. Phased' /\ Paging' /\ StagesMatch' /\ Phase' = Phase /\ req' = req
    <2>1. \A k \in Sweeps \cup {"migrate"} : \A h \in GPU : Under(k, h)' = Under(k, h)
      BY <1>19, <1>21
    <2>2. \A k \in {"shootdown", "gpuRestart"} : \A h \in GPU :
               Before(k, h)' = Before(k, h) /\ Inside(k, h)' = Inside(k, h)
      BY <1>16, <1>19, <1>21, KindsAre DEF Sent
    <2>3. pageTable' = pageTable /\ \A h \in GPU : Halted(h)' = Halted(h)
      BY <1>2, <1>16 DEF Sent
    <2> QED BY <1>1, <1>15, <2>1, <2>2, <2>3, MigrationKept
  <1>23. Queued'
    <2>1. queue' = queue /\ Head(queue).type = t /\ pageTable' = pageTable /\ Head(queue).page = m.page
      BY <1>2, <1>3, <1>5
    <2>2. ASSUME NEW k \in {"launch", "flush", "copy"}, NEW h \in GPU
          PROVE  Under(k, h)' = One(h \in reqs' /\ Head(queue').type = k)
      <3>1. Under(k, h)' = Under(k, h) + Number(s, CommandFor(k, h))
        BY <1>16, KindsAre DEF Sent
      <3>2. Number(s, CommandFor(k, h)) = One(k = t /\ h \in G) /\ Under(k, h) = 0
        BY <1>11, <1>20
      <3>3. Under(k, h)' = One(k = t /\ h \in G)
        BY <3>1, <3>2 DEF One
      <3> QED BY <1>8, <2>1, <3>3 DEF One
    <2>3. ASSUME NEW h \in reqs', Head(queue').type = "copy" PROVE h = pageTable'[Head(queue').page]
      BY <1>7, <1>8, <2>1, <2>3
    <2> QED BY <1>2, <1>7, <1>8, <2>1, <2>2, <2>3 DEF Queued
  <1>24. Asking'
    BY <1>1, <1>2, <1>15, <1>17, <1>22 DEF Driven, Asking, mmuVars, DriverKept
  <1>25. Ordered'
    <2>1. toDriver' = toDriver
      BY <1>2 DEF cpVars, portVars
    <2> QED BY <1>1, <1>11, <1>15, <2>1, OrderedGrown
  <1>26. Typed'
    <2>1. CPTypeOK'
      BY <1>1, <1>2 DEF Typed, CPTypeOK, cpVars, portVars, gpuVars
    <2>2. PMCTyped'
      BY <1>1, <1>2, TypedIs DEF PMCTyped, pmcVars, migrationVars
    <2>3. RestTyped'
      <3>1. queue' \in Seq(QueueCommand) /\ isRunning' \in BOOLEAN /\ reqs' \subseteq GPU
        BY <1>1, <1>2, <1>8 DEF Typed
      <3> QED BY <1>1, <1>2, <1>14, <3>1, TypedIs DEF RestTyped, mmuVars, accessVars
    <2> QED BY <2>1, <2>2, <2>3, TypedIsNext
  <1> QED BY <1>16, <1>22, <1>23, <1>24, <1>25, <1>26 DEF Controlled, Driven, Sent

(* A GPU is done with the command at the head of the queue. *)
LEMMA CommandAnswered ==
    ASSUME Controlled, NEW g \in GPU, ProcessCommandReturn(g)
    PROVE  Controlled'
  <1>1. Typed /\ Staged /\ Driven /\ Ordered /\ Answering
    BY DEF Controlled
  <1>2. /\ uplink[g] # <<>> /\ queue # <<>> /\ g \in reqs /\ reqs' = reqs \ {g}
        /\ uplink' = [uplink EXCEPT ![g] = Tail(@)]
        /\ UNCHANGED <<pmcVars, toDriver, toPart, fromPart, toPMCSender, cp, gpuVars>>
        /\ UNCHANGED <<driver, pageTable, frames, accessVars, mmuVars>>
    BY DEF ProcessCommandReturn, tableVars
  <1>3. PICK t \in {"launch", "flush", "copy"} : t = Head(uplink[g]) /\ t = Head(queue).type
    BY DEF ProcessCommandReturn
  <1>4. t \in Kinds
    BY KindsAre
  <1>5. driver'.requestsToSend = driver.requestsToSend /\ DriverKept
    BY <1>2 DEF DriverKept
  <1>6. Taken(g, t)
    BY <1>1, <1>2, <1>3, <1>4, <1>5, TakesAnswer
  <1>7. \A k \in Sweeps \cup {"migrate"} : k \in Kinds /\ k # t
    BY KindsAre DEF Sweeps
  <1>8. Phased' /\ Paging' /\ StagesMatch' /\ Phase' = Phase /\ req' = req
    <2>1. \A k \in Sweeps \cup {"migrate"} : \A h \in GPU : Under(k, h)' = Under(k, h)
      BY <1>6, <1>7 DEF Taken
    <2>2. \A k \in {"shootdown", "gpuRestart"} : \A h \in GPU :
               Before(k, h)' = Before(k, h) /\ Inside(k, h)' = Inside(k, h)
      BY <1>6, KindsAre DEF Taken
    <2>3. pageTable' = pageTable /\ \A h \in GPU : Halted(h)' = Halted(h)
      BY <1>2, <1>6 DEF Taken
    <2> QED BY <1>1, <1>5, <2>1, <2>2, <2>3, MigrationKept
  <1>9. ASSUME NEW k \in {"launch", "flush", "copy"}, NEW h \in GPU
        PROVE  Under(k, h)' = One(h \in reqs' /\ t = k)
    <2>1. Under(k, h) = One(h \in reqs /\ t = k)
      BY <1>1, <1>3 DEF Driven, Queued
    <2>2. CASE k = t /\ h = g
      BY <1>2, <1>6, <2>1, <2>2 DEF Taken, One
    <2>3. CASE k # t \/ h # g
      <3>1. Under(k, h)' = Under(k, h)
        BY <1>6, <2>3, KindsAre DEF Taken
      <3> QED BY <1>2, <2>1, <2>3, <3>1 DEF One
    <2> QED BY <2>2, <2>3
  <1>10. queue \in Seq(QueueCommand) /\ reqs \subseteq GPU /\ isRunning \in BOOLEAN
    BY <1>1 DEF Typed
  <1>11. isRunning
    BY <1>1, <1>2 DEF Driven, Queued
  <1>12. Queued' /\ queue' \in Seq(QueueCommand) /\ isRunning' \in BOOLEAN
    <2>1. CASE reqs' = {}
      <3>1. isRunning' = FALSE /\ queue' = Tail(queue)
        BY <1>2, <2>1 DEF ProcessCommandReturn, CommandEnds
      <3>2. \A k \in {"launch", "flush", "copy"}, h \in GPU : Under(k, h)' = 0
        BY <1>9, <2>1 DEF One
      <3>3. queue' \in Seq(QueueCommand) /\ isRunning' = FALSE
        BY <1>2, <1>10, <3>1
      <3>4. \A k \in {"launch", "flush", "copy"}, h \in GPU : Under(k, h)' = One(h \in reqs' /\ Head(queue').type = k)
        BY <2>1, <3>2 DEF One
      <3> QED BY <2>1, <3>3, <3>4 DEF Queued
    <2>2. CASE reqs' # {}
      <3>1. isRunning' = isRunning /\ queue' = queue
        BY <1>2, <2>2 DEF ProcessCommandReturn, CommandEnds
      <3>2. ASSUME NEW h \in reqs', Head(queue').type = "copy" PROVE h = pageTable'[Head(queue').page]
        BY <1>1, <1>2, <3>1, <3>2 DEF Driven, Queued
      <3>3. queue' \in Seq(QueueCommand) /\ isRunning' /\ isRunning' \in BOOLEAN /\ queue' # <<>>
        BY <1>2, <1>10, <1>11, <3>1
      <3>4. \A k \in {"launch", "flush", "copy"}, h \in GPU : Under(k, h)' = One(h \in reqs' /\ Head(queue').type = k)
        BY <1>3, <1>9, <3>1
      <3> QED BY <2>2, <3>2, <3>3, <3>4 DEF Queued
    <2> QED BY <2>1, <2>2
  <1>13. Asking'
    BY <1>1, <1>2, <1>8 DEF Driven, Asking, mmuVars, gpuVars, Legal
  <1>14. Ordered'
    BY <1>1, <1>2 DEF Ordered, CommandFor, OfType
  <1>15. Typed'
    <2>1. uplink' \in [GPU -> Seq(Answer)]
      <3>1. uplink \in [GPU -> Seq(Answer)]
        BY <1>1 DEF Typed, CPTypeOK
      <3>2. Tail(uplink[g]) \in Seq(Answer)
        BY <1>2, <3>1
      <3> QED BY <1>2, <3>1, <3>2
    <2>2. CPTypeOK'
      BY <1>1, <1>2, <2>1 DEF Typed, CPTypeOK, gpuVars
    <2>3. PMCTyped'
      BY <1>1, <1>2, TypedIs DEF PMCTyped, pmcVars, migrationVars
    <2>4. RestTyped'
      BY <1>1, <1>2, <1>10, <1>12, TypedIs DEF RestTyped, mmuVars, accessVars
    <2> QED BY <2>2, <2>3, <2>4, TypedIsNext
  <1> QED BY <1>6, <1>8, <1>12, <1>13, <1>14, <1>15 DEF Controlled, Driven, Taken

(* A migration begins. *)
LEMMA StartsMigration ==
    ASSUME Controlled, ParseFromMMU
    PROVE  Controlled'
  <1>1. Typed /\ Staged /\ Driven /\ Ordered /\ Answering
    BY DEF Controlled
  <1>2. ~Handling /\ toMMU # <<>> /\ toMMU' = Tail(toMMU)
        /\ UNCHANGED <<pmcVars, cpVars, queueVars, pageTable, frames, accessVars, mmuWaits, migrations>>
    BY DEF ParseFromMMU, Handling, tableVars
  <1>3. /\ mmuWaits # NoReq /\ Legal(mmuWaits) /\ dispatching[mmuWaits.to]
        /\ toMMU = <<mmuWaits>> /\ ~driver.toSendToMMU
    BY <1>1, <1>2 DEF Driven, Asking
  <1>4. PICK r \in PageMigrationReq : r = mmuWaits
    BY <1>3 DEF Legal
  <1>5. Head(toMMU) = r /\ toMMU' = <<>>
    BY <1>2, <1>3, <1>4
  <1>6. PICK G \in SUBSET GPU : G = GPU
    OBVIOUS
  <1>7. IsFiniteSet(G) /\ G # {}
    BY <1>6, DriverAssumption DEF PageMigrationReq
  <1>8. PICK c \in Int : c = Cardinality(G)
    BY <1>7, FS_CardinalityType
  <1>9. /\ ToEach("drain", G) \in Seq(Command)
        /\ \A k : \A h \in GPU : Number(ToEach("drain", G), CommandFor(k, h)) = One(k = "drain" /\ h \in G)
        /\ \A i \in DOMAIN ToEach("drain", G) : ToEach("drain", G)[i].type = "drain"
    <2>1. "drain" \in Plain
      BY DEF Plain
    <2> QED BY <2>1, ToEachIs
  <1>10. PICK s \in Seq(Command) : s = ToEach("drain", G)
    BY <1>9
  <1>11. /\ \A k : \A h \in GPU : Number(s, CommandFor(k, h)) = One(k = "drain" /\ h \in G)
         /\ \A i \in DOMAIN s : s[i].type = "drain"
    BY <1>9, <1>10
  <1>12. PICK q \in Seq(Command) : q = driver.requestsToSend \o s
    BY <1>1, DriverIs, ConcatAt
  <1>13. Phase = "idle"
    BY <1>2, PhaseIs DEF PhaseFacts
  <1>14. \A k \in Sweeps : Count(k) = 0 /\ \A h \in GPU : Under(k, h) = 0
    <2>1. "idle" \notin Sweeps
      BY DEF Sweeps
    <2> QED BY <1>1, <1>13, <2>1, SweepIs DEF Driven
  <1>15. driver \in DriverState
    BY <1>1, DriverIs
  <1>16. driver' = [driver EXCEPT !.currentPageMigrationReq = r, !.isCurrentlyHandlingMigrationReq = TRUE,
                                  !.requestsToSend = q, !.numRDMADrainACK = c]
    <2> DEFINE m == driver.numRDMADrainACK + Cardinality(GPU)
               z == driver.requestsToSend \o ToEach("drain", GPU)
    <2>1. driver' = [driver EXCEPT !.currentPageMigrationReq = Head(toMMU), !.isCurrentlyHandlingMigrationReq = TRUE,
                                   !.requestsToSend = z, !.numRDMADrainACK = m]
      BY DEF ParseFromMMU
    <2>2. z = q
      BY <1>6, <1>10, <1>12
    <2>3. driver.numRDMADrainACK = 0
      BY <1>14, CountIs, KindsAre
    <2>4. m = c
      BY <1>6, <1>8, <2>3
    <2> QED BY <1>5, <2>1, <2>2, <2>4
  <1>17. driver' \in DriverState
    BY <1>15, <1>16, DriverUpdates
  <1>18. driver'.numRDMADrainACK = c /\ driver'.requestsToSend = driver.requestsToSend \o s /\ req' = r
         /\ Handling' = TRUE /\ ToMove' = ToMove /\ OnePage' = OnePage /\ driver'.toSendToMMU = driver.toSendToMMU
         /\ driver'.numRestartACK = driver.numRestartACK /\ driver'.numShootDownACK = driver.numShootDownACK
         /\ driver'.numPagesMigratingACK = driver.numPagesMigratingACK
         /\ driver'.numRDMARestartACK = driver.numRDMARestartACK
    BY <1>12, <1>15, <1>16 DEF DriverState, req, Handling, ToMove, OnePage
  <1>19. Count("drain")' = c /\ \A l \in Sweeps \cup {"migrate"} : l # "drain" => Count(l)' = Count(l)
    BY <1>18, CountIs, CountIsNext DEF Sweeps
  <1>20. Sent(s)
    BY <1>1, <1>2, <1>18, Asks
  <1>21. \A k \in Kinds : \A h \in GPU : Before(k, h) \in Nat /\ Under(k, h) \in Nat
    BY <1>1, UnderIs
  <1>22. \A k \in Kinds : \A h \in GPU : k # "drain" => Under(k, h)' = Under(k, h)
    BY <1>11, <1>20, <1>21 DEF Sent, One
  <1>23. "drain" \in Kinds /\ "drain" \in Sweeps /\ "migrate" \in Kinds /\ "migrate" \notin Sweeps
    BY KindsAre DEF Sweeps
  <1>24. ASSUME NEW h \in GPU PROVE Under("drain", h)' = One(h \in G)
    <2>1. Under("drain", h)' = Under("drain", h) + Number(s, CommandFor("drain", h))
      BY <1>20, <1>23 DEF Sent
    <2>2. Under("drain", h) = 0 /\ Number(s, CommandFor("drain", h)) = One(h \in G)
      BY <1>11, <1>14, <1>23 DEF One
    <2> QED BY <2>1, <2>2 DEF One
  <1>25. \A l \in Sweeps : l # "drain" => Count(l)' = 0 /\ \A h \in GPU : Under(l, h)' = 0
    BY <1>14, <1>19, <1>22, KindsAre
  <1>26. Count("migrate") = 0 /\ OnePage = "nil" /\ ToMove = <<>> /\ \A h \in GPU : Under("migrate", h) = 0
    BY <1>1, <1>13, MoveIs
  <1>27. Phased' /\ Phase' = "drain"
    <2>1. Legal(req)'
      BY <1>3, <1>4, <1>18 DEF Legal
    <2>2. Count("migrate")' = 0
      BY <1>19, <1>23, <1>26
    <2> QED BY <1>7, <1>8, <1>18, <1>19, <1>23, <1>24, <1>25, <2>1, <2>2, PhasedGoes
  <1>28. Paging'
    <2>1. \A h \in GPU : Under("migrate", h)' = 0
      BY <1>22, <1>23, <1>26
    <2>2. Count("migrate")' = Len(ToMove') + One(OnePage' # "nil")
      BY <1>1, <1>18, <1>19, <1>23 DEF Driven, Paging
    <2> QED BY <1>18, <1>26, <1>27, <2>1, <2>2 DEF Paging, One
  <1>29. StagesMatch'
    BY <1>1, <1>13, <1>20, <1>27 DEF Driven, StagesMatch, StoppedNow, Sent
  <1>30. Queued'
    <2>1. \A l \in {"launch", "flush", "copy"} : l \in Kinds /\ l # "drain"
      BY KindsAre
    <2> QED BY <1>1, <1>2, <1>22, <2>1, QueuedKept
  <1>31. Asking'
    <2>1. dispatching' = dispatching /\ mmuWaits' = mmuWaits
      BY <1>2 DEF cpVars, gpuVars
    <2> QED BY <1>3, <1>4, <1>5, <1>18, <1>27, <2>1 DEF Asking, Legal
  <1>32. Ordered'
    <2>1. toDriver' = toDriver
      BY <1>2 DEF cpVars, portVars
    <2>2. \A i \in DOMAIN s : s[i].type # "gpuRestart"
      BY <1>11
    <2> QED BY <1>1, <1>18, <2>1, <2>2, OrderedGrown
  <1>33. Typed'
    <2>1. CPTypeOK'
      BY <1>1, <1>2 DEF Typed, CPTypeOK, cpVars, portVars, gpuVars
    <2>2. PMCTyped'
      BY <1>1, <1>2, TypedIs DEF PMCTyped, pmcVars, migrationVars
    <2>3. RestTyped'
      <3>1. toMMU' \in Seq(PageMigrationReq)
        BY <1>5
      <3> QED BY <1>1, <1>2, <1>17, <3>1, TypedIs DEF RestTyped, queueVars, accessVars
    <2> QED BY <2>1, <2>2, <2>3, TypedIsNext
  <1> QED BY <1>20, <1>27, <1>28, <1>29, <1>30, <1>31, <1>32, <1>33 DEF Controlled, Driven, Sent

-----------------------------------------------------------------------------
(* The driver sends a message straight to a GPU. *)
LEMMA Delivered ==
    ASSUME Typed, Ordered, NEW g \in GPU, NEW c \in Command, c.type = "migrate",
           toDriver' = [toDriver EXCEPT ![g] = Append(@, c)],
           driver'.requestsToSend = driver.requestsToSend
    PROVE  /\ Ordered' /\ toDriver' \in [GPU -> Seq(Command)]
           /\ Before("migrate", g)' = Before("migrate", g) + 1
           /\ \A k \in Kinds : \A h \in GPU : k # "migrate" \/ h # g => Before(k, h)' = Before(k, h)
  <1>1. /\ toDriver'[g] = Append(toDriver[g], c) /\ toDriver[g] \in Seq(Command)
        /\ \A h \in GPU : h # g => toDriver'[h] = toDriver[h]
        /\ toDriver' \in [GPU -> Seq(Command)]
    BY DEF Typed, CPTypeOK
  <1>2. \A k, h : Before(k, h)' = Number(driver.requestsToSend, CommandFor(k, h)) + Number(toDriver'[h], OfType(k))
    BY DEF Before, CommandFor, OfType
  <1>3. ASSUME NEW k, k # "migrate" PROVE Number(toDriver'[g], OfType(k)) = Number(toDriver[g], OfType(k))
    <2>1. c \notin OfType(k)
      BY <1>3 DEF OfType
    <2>2. Number(Append(toDriver[g], c), OfType(k)) = Number(toDriver[g], OfType(k))
      BY <1>1, <2>1, NumberAppends
    <2> QED BY <1>1, <2>2
  <1>4. Number(toDriver'[g], OfType("migrate")) = Number(toDriver[g], OfType("migrate")) + 1
    <2>1. c \in OfType("migrate")
      BY DEF OfType
    <2>2. Number(Append(toDriver[g], c), OfType("migrate")) = Number(toDriver[g], OfType("migrate")) + 1
      BY <1>1, <2>1, NumberAppends
    <2> QED BY <1>1, <2>2
  <1>5. Before("migrate", g)' = Before("migrate", g) + 1
    <2>1. /\ Number(driver.requestsToSend, CommandFor("migrate", g)) \in Nat
          /\ Number(toDriver[g], OfType("migrate")) \in Nat
      BY <1>1, DriverIs, NumberIn
    <2> QED BY <1>2, <1>4, <2>1 DEF Before
  <1>6. ASSUME NEW k \in Kinds, NEW h \in GPU, k # "migrate" \/ h # g PROVE Before(k, h)' = Before(k, h)
    <2>1. Number(toDriver'[h], OfType(k)) = Number(toDriver[h], OfType(k))
      <3>1. CASE h # g
        BY <1>1, <3>1
      <3>2. CASE h = g
        BY <1>3, <1>6, <3>2
      <3> QED BY <3>1, <3>2
    <2> QED BY <1>2, <2>1 DEF Before
  <1>7. Ordered'
    <2>1. /\ DOMAIN toDriver'[g] = DOMAIN toDriver[g] \cup {Len(toDriver[g]) + 1}
          /\ toDriver'[g][Len(toDriver[g]) + 1] = c
          /\ \A i \in DOMAIN toDriver[g] : toDriver'[g][i] = toDriver[g][i]
      BY <1>1, AppendAt
    <2>2. Len(toDriver[g]) \in Nat /\ DOMAIN toDriver[g] = 1..Len(toDriver[g])
      BY <1>1
    <2>3. InOrder(toDriver'[g])
      <3> SUFFICES ASSUME NEW i \in DOMAIN toDriver'[g], NEW j \in DOMAIN toDriver'[g], i < j,
                          toDriver'[g][i].type = "flush"
                   PROVE  toDriver'[g][j].type # "gpuRestart"
        BY DEF InOrder
      <3>1. i \in DOMAIN toDriver[g]
        BY <2>1, <2>2
      <3>2. CASE j \in DOMAIN toDriver[g]
        BY <2>1, <3>1, <3>2 DEF Ordered, InOrder
      <3>3. CASE j = Len(toDriver[g]) + 1
        BY <2>1, <3>3
      <3> QED BY <2>1, <3>2, <3>3
    <2>4. \A h \in GPU : InOrder(toDriver'[h]) /\ Number(toDriver'[h], OfType("flush")) = Number(toDriver[h], OfType("flush"))
      BY <1>1, <1>3, <2>3 DEF Ordered
    <2> QED BY <2>4 DEF Ordered, CommandFor, OfType
  <1> QED BY <1>1, <1>5, <1>6, <1>7

(* The driver sends the next page on its way. *)
LEMMA SendsPage ==
    ASSUME Controlled, SendMigrationReqToCP
    PROVE  Controlled'
  <1>1. Typed /\ Staged /\ Driven /\ Ordered /\ Answering
    BY DEF Controlled
  <1>2. OnePage = "nil" /\ ToMove # <<>> /\ ToMove \in Seq(Command)
    BY <1>1, DriverIs DEF SendMigrationReqToCP, OnePage, ToMove
  <1>3. Count("migrate") = Len(ToMove) /\ Len(ToMove) \in Nat \ {0} /\ \A h \in GPU : Under("migrate", h) = 0
    <2>1. Count("migrate") = Len(ToMove) + 0
      BY <1>1, <1>2 DEF Driven, Paging, One
    <2>2. Len(ToMove) \in Nat \ {0}
      BY <1>2, EmptySeq
    <2>3. \A h \in GPU : Under("migrate", h) = 0
      BY <1>1, <1>2 DEF Driven, Paging, One
    <2> QED BY <2>1, <2>2, <2>3
  <1>4. Phase = "migrate" /\ Handling /\ Legal(req)
    <2>1. Phase = "migrate"
      BY <1>1, <1>3 DEF Driven, Phased
    <2>2. Handling
      BY <2>1, PhaseIs DEF PhaseFacts
    <2> QED BY <1>1, <2>1, <2>2 DEF Driven, Phased
  <1>5. PICK r \in PageMigrationReq : r = req
    BY <1>4 DEF Legal
  <1>6. ToMove \in Seq(MoveMsg(r)) /\ MoveMsg(r) \subseteq Command
    BY <1>1, <1>4, <1>5, MigrationsIs DEF Driven, Paging, MoveMsg
  <1>7. PICK c \in MoveMsg(r) : c = Head(ToMove)
    BY <1>2, <1>6
  <1>8. c \in Command /\ c.type = "migrate" /\ c.gpu = r.to /\ c.page \in r.pages /\ c.from = r.host
    BY <1>6 DEF MoveMsg
  <1>9. PICK g \in GPU : g = r.to
    BY DEF PageMigrationReq
  <1>10. PICK p \in Page : p = c.page
    BY <1>8 DEF PageMigrationReq
  <1>11. PICK q \in Seq(MoveMsg(r)) : q = Tail(ToMove) /\ Len(ToMove) = Len(q) + 1
    <2>1. PICK m \in Seq(MoveMsg(r)) : m = ToMove
      BY <1>6
    <2>2. m # <<>>
      BY <1>2, <2>1
    <2>3. Tail(m) \in Seq(MoveMsg(r)) /\ Len(m) = Len(Tail(m)) + 1
      BY <2>2, HeadTailProperties, LenProperties
    <2> QED BY <2>1, <2>3
  <1>12. q \in Seq(Command)
    BY <1>6, <1>11
  <1>13. driver \in DriverState
    BY <1>1, DriverIs
  <1>14. /\ driver' = [driver EXCEPT !.migrationReqToSendToCP = q, !.isCurrentlyMigratingOnePage = p]
         /\ toDriver' = [toDriver EXCEPT ![g] = Append(@, c)]
    BY <1>7, <1>8, <1>9, <1>10, <1>11 DEF SendMigrationReqToCP, SendToCP, ToMove
  <1>15. driver' \in DriverState
    BY <1>12, <1>13, <1>14, DriverUpdates
  <1>16. driver'.requestsToSend = driver.requestsToSend /\ req' = req /\ Handling' = Handling /\ ToMove' = q
         /\ OnePage' = p /\ driver'.toSendToMMU = driver.toSendToMMU
         /\ driver'.numRDMADrainACK = driver.numRDMADrainACK /\ driver'.numRestartACK = driver.numRestartACK
         /\ driver'.numShootDownACK = driver.numShootDownACK
         /\ driver'.numPagesMigratingACK = driver.numPagesMigratingACK
         /\ driver'.numRDMARestartACK = driver.numRDMARestartACK
    BY <1>13, <1>14 DEF DriverState, req, Handling, ToMove, OnePage
  <1>17. /\ \A l \in Sweeps \cup {"migrate"} : Count(l)' = Count(l)
         /\ Phase' = Phase
    BY <1>16 DEF Phase, Handling, Count
  <1>18. UNCHANGED <<pmcVars, uplink, toPart, fromPart, toPMCSender, cp, dispatching, paused, tlb, dirty,
                     queueVars, pageTable, frames, accessVars, mmuVars>>
    BY DEF SendMigrationReqToCP, ToCPUnchanged, gpuVars, tableVars
  <1>19. /\ Ordered' /\ toDriver' \in [GPU -> Seq(Command)]
         /\ Before("migrate", g)' = Before("migrate", g) + 1
         /\ \A k \in Kinds : \A h \in GPU : k # "migrate" \/ h # g => Before(k, h)' = Before(k, h)
    BY <1>1, <1>8, <1>14, <1>16, Delivered
  <1>20. /\ Staged' /\ (\A h \in GPU : Halted(h)' = Halted(h))
         /\ \A k \in Kinds, h \in GPU : Inside(k, h)' = Inside(k, h)
    BY <1>1, <1>18, DriverKeeps
  <1>21. \A k, h : After(k, h)' = After(k, h)
    BY <1>18, AfterSame
  <1>22. \A k \in Kinds : \A h \in GPU : k # "migrate" \/ h # g => Under(k, h)' = Under(k, h)
    BY <1>19, <1>20, <1>21 DEF Under
  <1>23. "migrate" \in Kinds /\ "migrate" \notin Sweeps /\ p # "nil" /\ p \in r.pages
    BY <1>8, <1>10, DriverAssumption, KindsAre DEF Sweeps
  <1>24. Under("migrate", g)' = 1
    <2>1. /\ Before("migrate", g) \in Nat /\ Inside("migrate", g) \in Nat /\ After("migrate", g) \in Nat
          /\ Under("migrate", g) = Before("migrate", g) + Inside("migrate", g) + After("migrate", g)
      BY <1>1, <1>23, UnderIs
    <2>2. Under("migrate", g)' = Before("migrate", g)' + Inside("migrate", g)' + After("migrate", g)'
      BY UnderIsNext
    <2>3. Under("migrate", g) = 0 /\ Inside("migrate", g)' = Inside("migrate", g)
          /\ After("migrate", g)' = After("migrate", g)
      BY <1>3, <1>20, <1>21, <1>23
    <2> QED BY <1>19, <2>1, <2>2, <2>3
  <1>25. \A k \in Sweeps : Count(k) = 0 /\ \A h \in GPU : Under(k, h) = 0
    BY <1>1, <1>4, <1>23, SweepIs DEF Driven
  <1>26. Phased' /\ Phase' = "migrate"
    <2>1. \A l \in Sweeps : Count(l)' = 0 /\ \A h \in GPU : Under(l, h)' = 0
      BY <1>17, <1>22, <1>23, <1>25, KindsAre
    <2>2. Count("migrate")' # 0
      BY <1>3, <1>17
    <2>3. Legal(req)'
      BY <1>4, <1>16 DEF Legal
    <2>4. PICK G \in SUBSET GPU : G = {}
      OBVIOUS
    <2>5. Handling'
      BY <1>4, <1>16
    <2>6. "migrate" \notin Sweeps
      BY <1>23
    <2> QED BY <2>1, <2>2, <2>3, <2>4, <2>5, <2>6, PhasedGoes
  <1>27. Paging'
    <2>1. Count("migrate")' = Len(ToMove') + One(OnePage' # "nil")
      BY <1>3, <1>11, <1>16, <1>17, <1>23 DEF One
    <2>2. ASSUME NEW h \in GPU PROVE Under("migrate", h)' = One(OnePage' # "nil" /\ h = req'.to)
      <3>1. req'.to = g /\ OnePage' # "nil"
        BY <1>5, <1>9, <1>16, <1>23
      <3> QED BY <1>3, <1>22, <1>23, <1>24, <3>1 DEF One
    <2>3. OnePage' \in req'.pages
      BY <1>5, <1>16, <1>23
    <2>4. ToMove' \in Seq([type : {"migrate"}, gpu : {req'.to}, page : req'.pages, from : {req'.host}])
      BY <1>5, <1>11, <1>16 DEF MoveMsg
    <2>5. \A x \in req'.pages : pageTable'[x] = req'.to
      BY <1>1, <1>4, <1>16, <1>18 DEF Driven, Paging
    <2> QED BY <2>1, <2>2, <2>3, <2>4, <2>5 DEF Paging
  <1>28. StagesMatch'
    BY <1>1, <1>4, <1>16, <1>17, <1>20 DEF Driven, StagesMatch, StoppedNow
  <1>29. Queued'
    <2>1. \A l \in {"launch", "flush", "copy"} : l \in Kinds /\ l # "migrate"
      BY KindsAre
    <2> QED BY <1>1, <1>18, <1>22, <2>1, QueuedKept
  <1>30. Asking'
    BY <1>1, <1>16, <1>17, <1>18 DEF Driven, Asking, mmuVars, Legal
  <1>31. Answering'
    BY <1>1, <1>18 DEF Answering, pmcVars, migrationVars
  <1>32. Typed'
    <2>1. CPTypeOK'
      BY <1>1, <1>18, <1>19 DEF Typed, CPTypeOK
    <2>2. PMCTyped'
      BY <1>1, <1>18, TypedIs DEF PMCTyped, pmcVars, migrationVars
    <2>3. RestTyped'
      BY <1>1, <1>15, <1>18, TypedIs DEF RestTyped, queueVars, accessVars, mmuVars
    <2> QED BY <2>1, <2>2, <2>3, TypedIsNext
  <1> QED BY <1>19, <1>20, <1>26, <1>27, <1>28, <1>29, <1>30, <1>31, <1>32 DEF Controlled, Driven

-----------------------------------------------------------------------------
(* At first nothing is under way, everything runs and nobody asks. *)
LEMMA StartsTyped == Init => Typed /\ Answering
  <1> SUFFICES ASSUME Init PROVE Typed /\ Answering
    OBVIOUS
  <1>1. <<>> \in Seq(Command) /\ <<>> \in Seq(Answer) /\ <<>> \in Seq(Control) /\ <<>> \in Seq(Migration)
        /\ <<>> \in Seq(PageMigrationReq)
    OBVIOUS
  <1>2. [currShootdownRequest |-> {}, shootDownInProcess |-> FALSE, numCUAck |-> 0,
         numAddrTranslationFlushAck |-> 0, numAddrTranslationRestartAck |-> 0,
         numCacheACK |-> 0, numTLBAck |-> 0] \in CPState
    BY DEF CPState
  <1>3. CPTypeOK
    <2>1. /\ toDriver \in [GPU -> Seq(Command)] /\ uplink \in [GPU -> Seq(Answer)]
          /\ toPMCSender \in [GPU -> Seq(Migration)]
      BY <1>1 DEF Init, CPInit
    <2>2. /\ toPart \in [GPU -> [Part -> Seq(Control)]] /\ fromPart \in [GPU -> [Part -> Seq(Control)]]
      BY <1>1 DEF Init, CPInit
    <2>3. cp \in [GPU -> CPState]
      BY <1>2 DEF Init, CPInit
    <2>4. /\ dispatching \in [GPU -> BOOLEAN] /\ paused \in [GPU -> SUBSET Part]
      BY DEF Init, CPInit
    <2>5. tlb \in [GPU -> [AnyTLB -> [Page -> Translation \cup {NoTranslation}]]]
      BY DEF Init, CPInit
    <2>6. dirty \in [GPU -> [PullID -> Data \cup {Clean}]]
      BY DEF Init, CPInit
    <2> QED BY <2>1, <2>2, <2>3, <2>4, <2>5, <2>6 DEF CPTypeOK
  <1>4. PMCTyped
    BY <1>1 DEF Init, PMCInit, PMCTyped
  <1>5. driver \in DriverState
    BY <1>1 DEF Init, DriverState
  <1>6. RestTyped
    <2>1. queue \in Seq(QueueCommand) /\ pageTable \in [Page -> GPU] /\ frames \in [GPU -> [Page -> Nat]]
      BY DriverAssumption DEF Init
    <2>2. inflight \in [GPU -> Access \cup {NoAccess}] /\ rdmaOut \in [GPU -> Access \cup {NoAccess}]
      BY DEF Init
    <2>3. value \in [PullID -> Data] /\ writes \in 0..MaxWrites /\ migrations \in 0..MaxMigrations
      BY DriverAssumption DEF Init, Data
    <2> QED BY <1>1, <1>5, <2>1, <2>2, <2>3 DEF RestTyped, Init
  <1>7. Answering
    BY DEF Init, PMCInit, Answering
  <1> QED BY <1>3, <1>4, <1>6, <1>7, TypedIs

(* Every GPU starts in the stage "running". *)
LEMMA StartsStaged == Init => \A g \in GPU : GPUAt(g, "running") /\ ~Flushing(g)
  <1> SUFFICES ASSUME Init, NEW g \in GPU PROVE GPUAt(g, "running") /\ ~Flushing(g)
    OBVIOUS
  <1>1. \A p \in Part : Quiet(g, p) /\ p \notin paused[g]
    BY DEF Init, CPInit, Quiet
  <1>2. \A X \in Groups : BusyOf(g, X) = {} /\ \A p \in X : PartUp(g, p)
    BY <1>1, GroupsApart DEF BusyOf, PartUp
  <1>3. ~Flushing(g)
    BY <1>1, PartsApart DEF Flushing, Quiet, Asked, Replied
  <1>4. \A X \in Groups : GroupAt(g, X, "up")
    BY <1>2 DEF GroupAt
  <1>5. CUAt("running") = "up" /\ ATAt("running") = "up" /\ CacheAt("running") = "up" /\ TLBAt("running") = "up"
    BY DEF CUAt, ATAt, CacheAt, TLBAt
  <1>6. \A X \in Groups : Cardinality(BusyOf(g, X)) = 0
    BY <1>2, FS_EmptySet
  <1>7. CountAt(g, "running")
    BY <1>6 DEF CountAt, Init, CPInit, Groups
  <1>8. cp[g].shootDownInProcess = ("running" \in Stops)
    BY StopStages DEF Init, CPInit
  <1> QED BY <1>3, <1>4, <1>5, <1>7, <1>8, StopStages DEF GPUAt, Groups

(* The initial states satisfy the invariant. *)
LEMMA Starting == Init => Controlled
  <1> SUFFICES ASSUME Init PROVE Controlled
    OBVIOUS
  <1>1. Typed /\ Answering
    BY StartsTyped
  <1>2. \A g \in GPU : GPUAt(g, "running") /\ ~Flushing(g)
    BY StartsStaged
  <1>3. "running" \in Stage /\ "running" \notin Stops /\ "running" \notin Starts
    BY DEF Stage, Stops, Starts
  <1>4. \A g \in GPU : StageOf(g) = "running"
    BY <1>1, <1>2, <1>3, StageIs DEF Typed
  <1>5. Staged
    BY <1>2, <1>3 DEF Staged
  <1>6. driver.requestsToSend = <<>> /\ ~Handling /\ ToMove = <<>> /\ OnePage = "nil"
        /\ \A k \in Sweeps \cup {"migrate"} : Count(k) = 0
    <2>1. /\ driver.requestsToSend = <<>> /\ driver.isCurrentlyHandlingMigrationReq = FALSE
          /\ driver.migrationReqToSendToCP = <<>> /\ driver.isCurrentlyMigratingOnePage = "nil"
          /\ driver.numRDMADrainACK = 0 /\ driver.numShootDownACK = 0 /\ driver.numPagesMigratingACK = 0
          /\ driver.numRestartACK = 0 /\ driver.numRDMARestartACK = 0
      BY DEF Init
    <2> QED BY <2>1, CountIs DEF Handling, ToMove, OnePage, Sweeps
  <1>7. \A k : \A g \in GPU : Before(k, g) = 0 /\ After(k, g) = 0
    <2>1. \A g \in GPU : toDriver[g] = <<>> /\ uplink[g] = <<>>
      BY DEF Init, CPInit
    <2> QED BY <1>6, <2>1, NumberEmpty DEF Before, After
  <1>8. \A k \in Kinds : \A g \in GPU : Inside(k, g) = 0
    <2> SUFFICES ASSUME NEW g \in GPU PROVE \A k \in Kinds : Inside(k, g) = 0
      OBVIOUS
    <2>1. ~dispatching[g] /\ toPMCSender[g] = <<>> /\ ctrlPort[g] = <<>> /\ ~isHandlingPageMigration[g]
          /\ \A p \in Part : toPart[g][p] = <<>> /\ fromPart[g][p] = <<>>
      BY DEF Init, CPInit, PMCInit
    <2>2. \A k : InPart(g, "dma", k) = 0 /\ InPart(g, "rdma", k) = 0
      BY <2>1, PartsApart, NumberEmpty DEF InPart
    <2>3. One(dispatching[g]) = 0 /\ One(Flushing(g)) = 0 /\ One(isHandlingPageMigration[g]) = 0
          /\ One(StageOf(g) \in Stops) = 0 /\ One(StageOf(g) \in Starts) = 0
      BY <1>2, <1>3, <1>4, <2>1 DEF One
    <2>4. Len(toPMCSender[g]) = 0 /\ Len(ctrlPort[g]) = 0 /\ Len(fromPart[g]["pmc"]) = 0
      BY <2>1, PartsApart
    <2>5. Inside("migrate", g) = 0
      <3>1. Inside("migrate", g) = Len(toPMCSender[g]) + Len(ctrlPort[g]) + One(isHandlingPageMigration[g])
                                     + Len(fromPart[g]["pmc"])
        BY InsideIs
      <3> QED BY <2>3, <2>4, <3>1
    <2> QED BY <2>2, <2>3, <2>5, InsideIs DEF Kinds
  <1>9. \A k \in Kinds : \A g \in GPU : Under(k, g) = 0
    BY <1>7, <1>8 DEF Under
  <1>10. Phase = "idle"
    BY <1>6, PhaseIs DEF PhaseFacts
  <1>11. Phased
    <2>1. \A k \in Sweeps : Due(k) = {}
      BY <1>9, KindsAre DEF Due
    <2>2. \A k \in Sweeps : Cardinality(Due(k)) = 0
      BY <2>1, FS_EmptySet
    <2>3. \A k \in Sweeps \cup {"migrate"} : k # "idle"
      BY DEF Sweeps
    <2>4. \A k \in {"shootdown", "gpuRestart"} : \A g \in Due(k) : g \in req.accessing
      BY <2>1, KindsAre
    <2>5. \A k \in Sweeps : Count(k) = Cardinality(Due(k))
      BY <1>6, <2>2
    <2>6. \A k \in Sweeps : \A g \in GPU : Under(k, g) \in {0, 1}
      BY <1>9, KindsAre
    <2>7. \A k \in Sweeps \cup {"migrate"} : Count(k) # 0 <=> Phase = k
      BY <1>6, <1>10, <2>3
    <2> QED BY <1>6, <2>4, <2>5, <2>6, <2>7 DEF Phased
  <1>12. Paging
    <2>1. Count("migrate") = Len(ToMove) + One(OnePage # "nil")
      BY <1>6 DEF One
    <2>2. \A g \in GPU : Under("migrate", g) = One(OnePage # "nil" /\ g = req.to)
      BY <1>6, <1>9, KindsAre DEF One
    <2> QED BY <1>6, <1>10, <2>1, <2>2 DEF Paging
  <1>13. StagesMatch
    BY <1>4, <1>10 DEF StagesMatch, StoppedNow, Halted
  <1>14. reqs = {} /\ ~isRunning /\ toMMU = <<>> /\ mmuWaits = NoReq /\ ~driver.toSendToMMU
    BY DEF Init
  <1>15. Queued
    BY <1>9, <1>14, KindsAre DEF Queued, One
  <1>16. Asking
    BY <1>10, <1>14 DEF Asking
  <1>17. Ordered
    <2>1. InOrder(<<>>)
      BY DEF InOrder
    <2>2. \A g \in GPU : toDriver[g] = <<>>
      BY DEF Init, CPInit
    <2> QED BY <1>6, <2>1, <2>2, NumberEmpty DEF Ordered
  <1> QED BY <1>1, <1>5, <1>11, <1>12, <1>13, <1>15, <1>16, <1>17 DEF Controlled, Driven

(* Nothing happens. *)
LEMMA NothingHappens ==
    ASSUME Controlled, UNCHANGED vars
    PROVE  Controlled'
  <1>1. UNCHANGED <<pmcVars, cpVars, queueVars, driver, pageTable, frames, accessVars, mmuVars>>
    BY DEF vars, tableVars
  <1>2. /\ ComposedUnchanged /\ toDriver' = toDriver /\ UNCHANGED <<portVars, cp, dispatching, paused>>
        /\ ctrlPort' = ctrlPort /\ isHandlingPageMigration' = isHandlingPageMigration
    BY <1>1 DEF ComposedUnchanged, cpVars, gpuVars, portVars, pmcVars, migrationVars, tableVars
  <1>3. Typed'
    <2>1. CPTypeOK'
      BY <1>1 DEF Controlled, Typed, CPTypeOK, cpVars, portVars, gpuVars
    <2>2. PMCTyped'
      BY <1>1, TypedIs DEF Controlled, PMCTyped, pmcVars, migrationVars
    <2>3. RestTyped'
      BY <1>1, TypedIs DEF Controlled, RestTyped, queueVars, mmuVars, accessVars
    <2> QED BY <2>1, <2>2, <2>3, TypedIsNext
  <1>4. Answering'
    BY <1>1 DEF pmcVars, migrationVars, Answering, Controlled
  <1>5. Staged' /\ \A g \in GPU : Moves(g)
    BY <1>2, Elsewhere DEF Moves, Controlled, ComposedUnchanged
  <1>6. /\ Staged' /\ (\A h \in GPU : Halted(h)' = Halted(h))
        /\ \A k \in Kinds, h \in GPU : Inside(k, h)' = Inside(k, h)
    <2>1. toPart' = toPart /\ fromPart' = fromPart /\ UNCHANGED <<pmcVars, toPMCSender, dispatching>>
          /\ paused' = paused /\ cp' = cp
      BY <1>1 DEF cpVars, portVars, gpuVars
    <2> QED BY <2>1, DriverKeeps DEF Controlled
  <1>7. Driven' /\ Ordered'
    <2>1. CASE GPU = {}
      <3>1. UNCHANGED <<queue, isRunning, reqs, toMMU, mmuWaits, driver, pageTable, frames, dispatching>>
        BY <1>1 DEF queueVars, mmuVars, cpVars, gpuVars, tableVars
      <3>2. Due("drain")' = Due("drain") /\ Due("shootdown")' = Due("shootdown")
            /\ Due("gpuRestart")' = Due("gpuRestart") /\ Due("rdmaRestart")' = Due("rdmaRestart")
        BY <2>1 DEF Due
      <3>3. Phase' = Phase /\ req' = req /\ Handling' = Handling /\ ToMove' = ToMove /\ OnePage' = OnePage
            /\ \A k : Count(k)' = Count(k)
        BY <3>1 DEF Phase, req, Handling, ToMove, OnePage, Count
      <3>4. Phased'
        BY <2>1, <3>2, <3>3 DEF Controlled, Driven, Phased, Legal, Sweeps, Due
      <3>5. Paging'
        BY <2>1, <3>1, <3>3 DEF Controlled, Driven, Paging
      <3>6. StagesMatch'
        BY <2>1 DEF StagesMatch
      <3>7. Queued'
        BY <2>1, <3>1 DEF Controlled, Driven, Queued
      <3>8. Asking'
        BY <3>1, <3>3 DEF Controlled, Driven, Asking, Legal
      <3>9. Ordered'
        BY <2>1, <3>1 DEF Controlled, Ordered, InOrder
      <3> QED BY <3>4, <3>5, <3>6, <3>7, <3>8, <3>9 DEF Driven
    <2>2. CASE GPU # {}
      <3>1. PICK g \in GPU : TRUE
        BY <2>2
      <3> QED BY <1>2, <1>3, <1>5, <3>1, ComposedKept, MovedDriver, OrderedTail DEF Controlled
    <2> QED BY <2>1, <2>2
  <1> QED BY <1>3, <1>4, <1>5, <1>7 DEF Controlled

(* Every step of the system keeps the driver, the command processors and   *)
(* the kernels in step.                                                    *)
LEMMA StaysControlled == Controlled /\ [Next]_vars => Controlled'
  <1> SUFFICES ASSUME Controlled, [Next]_vars PROVE Controlled'
    OBVIOUS
  <1>1. CASE DriverStep
    BY <1>1, SendsToGPUs, AnswersMMU, SendsPage, CommandAnswered, DrainAnswered, ShootdownAnswered,
       MigrateAnswered, RestartAnswered, RDMARestartAnswered, StartsCommand, StartsMigration DEF DriverStep
  <1>2. CASE \E g \in GPU : GPUStep(g) \/ KernelEnds(g)
    BY <1>2, GPUStepControlled, KernelControlled
  <1>3. CASE Kernels
    <2>1. CASE \E g \in GPU, u \in UnregisteredTLB, id \in PullID : Translate(g, u, id)
      BY <2>1, KernelControlled
    <2>2. CASE \E g, host \in GPU, pages \in SUBSET Page : MMURequests(g, host, pages)
      BY <2>2, MMUAsks
    <2> QED BY <1>3, <2>1, <2>2 DEF Kernels
  <1>4. CASE UNCHANGED vars
    BY <1>4, NothingHappens
  <1> QED BY <1>1, <1>2, <1>3, <1>4 DEF Next, System, Finished

(* The inductive invariant of the driver and the command processors.       *)
THEOREM DriverInvariant == Spec => []Controlled
  <1>1. Init => Controlled
    BY Starting
  <1>2. Controlled /\ [Next]_vars => Controlled'
    BY StaysControlled
  <1> QED BY <1>1, <1>2, PTL DEF Spec

-----------------------------------------------------------------------------
(* The requests and the responses of the parts of a group, when every part *)
(* has at most one of the two.                                             *)
LEMMA OutstandingIs ==
    ASSUME NEW g, NEW X, X \subseteq Part, NEW kinds,
           \A p \in X : Quiet(g, p) \/ (\E k \in kinds : Asked(g, p, k) \/ Replied(g, p, k))
    PROVE  Outstanding(g, X, kinds) = Cardinality(BusyOf(g, X))
  <1> DEFINE a == { p \in X : toPart[g][p] # <<>> /\ Head(toPart[g][p]) \in kinds }
             b == { p \in X : fromPart[g][p] # <<>> /\ Head(fromPart[g][p]) \in kinds }
  <1>1. IsFiniteSet(X)
    BY CPAssumption, FS_Subset
  <1>2. IsFiniteSet(a) /\ IsFiniteSet(b)
    BY <1>1, FS_Subset
  <1>3. ASSUME NEW p \in X PROVE /\ p \in a \cup b <=> p \in BusyOf(g, X)
                                 /\ ~(p \in a /\ p \in b)
    <2>1. CASE Quiet(g, p)
      BY <2>1 DEF Quiet, BusyOf
    <2>2. ASSUME NEW k \in kinds, Asked(g, p, k) PROVE p \in a /\ p \notin b /\ p \in BusyOf(g, X)
      <3>1. <<k>> # <<>> /\ Head(<<k>>) = k
        BY OneInQueue
      <3> QED BY <2>2, <3>1 DEF Asked, Quiet, BusyOf
    <2>3. ASSUME NEW k \in kinds, Replied(g, p, k) PROVE p \in b /\ p \notin a /\ p \in BusyOf(g, X)
      <3>1. <<k>> # <<>> /\ Head(<<k>>) = k
        BY OneInQueue
      <3> QED BY <2>3, <3>1 DEF Replied, Quiet, BusyOf
    <2> QED BY <2>1, <2>2, <2>3
  <1>4. a \cup b = BusyOf(g, X) /\ a \cap b = {}
    BY <1>3 DEF BusyOf
  <1>5. Cardinality(a \cup b) = Cardinality(a) + Cardinality(b) - Cardinality(a \cap b)
    BY <1>2, FS_Union
  <1>6. Cardinality(a \cap b) = 0 /\ Cardinality(a) \in Nat /\ Cardinality(b) \in Nat
    BY <1>2, <1>4, FS_EmptySet, CountZero
  <1>7. Outstanding(g, X, kinds) = Cardinality(a) + Cardinality(b)
    BY DEF Outstanding
  <1> HIDE DEF a, b
  <1> QED BY <1>4, <1>5, <1>6, <1>7

(* No part of the group has a request or a response of the kinds.          *)
LEMMA OutstandingNone ==
    ASSUME NEW g, NEW X, NEW kinds,
           \A p \in X : Quiet(g, p) \/ (\E k : k \notin kinds /\ (Asked(g, p, k) \/ Replied(g, p, k)))
    PROVE  Outstanding(g, X, kinds) = 0
  <1>1. ASSUME NEW p \in X
        PROVE  /\ ~(toPart[g][p] # <<>> /\ Head(toPart[g][p]) \in kinds)
               /\ ~(fromPart[g][p] # <<>> /\ Head(fromPart[g][p]) \in kinds)
    <2>1. CASE Quiet(g, p)
      BY <2>1 DEF Quiet
    <2>2. CASE ~Quiet(g, p)
      <3>1. PICK k : k \notin kinds /\ (Asked(g, p, k) \/ Replied(g, p, k))
        BY <2>2
      <3>2. <<k>> # <<>> /\ Head(<<k>>) = k
        BY OneInQueue
      <3> QED BY <3>1, <3>2 DEF Asked, Replied
    <2> QED BY <2>1, <2>2
  <1>2. /\ { p \in X : toPart[g][p] # <<>> /\ Head(toPart[g][p]) \in kinds } = {}
        /\ { p \in X : fromPart[g][p] # <<>> /\ Head(fromPart[g][p]) \in kinds } = {}
    BY <1>1
  <1>3. /\ Cardinality({ p \in X : toPart[g][p] # <<>> /\ Head(toPart[g][p]) \in kinds }) = 0
        /\ Cardinality({ p \in X : fromPart[g][p] # <<>> /\ Head(fromPart[g][p]) \in kinds }) = 0
    BY <1>2, FS_EmptySet
  <1> QED BY <1>3 DEF Outstanding

(* The ways a group can be in are all there are.                           *)
LEMMA WaysAre ==
    \A s \in Stage : CUAt(s) \in Ways /\ ATAt(s) \in Ways /\ CacheAt(s) \in Ways /\ TLBAt(s) \in Ways
  BY DEF Stage, Stops, Starts, CUAt, ATAt, CacheAt, TLBAt, Ways

(* What the parts of a group have under way.                               *)
LEMMA GroupBusy ==
    ASSUME NEW g, NEW X, NEW way \in Ways, GroupAt(g, X, way), NEW p \in X
    PROVE  /\ Quiet(g, p) \/ (\E k \in Control : Asked(g, p, k) \/ Replied(g, p, k))
           /\ way = "stops" => Quiet(g, p) \/ Asked(g, p, Stop(p)) \/ Replied(g, p, Stop(p))
           /\ way = "starts" => Quiet(g, p) \/ Asked(g, p, "restart") \/ Replied(g, p, "restart")
           /\ way = "down" => Quiet(g, p)
           /\ way = "up" /\ p \notin Cache => Quiet(g, p)
  <1>1. Stop(p) \in Control /\ "restart" \in Control /\ "flush" \in Control
    BY DEF Stop, Control
  <1>2. CASE way = "up"
    BY <1>1, <1>2 DEF GroupAt, PartUp
  <1>3. CASE way = "down"
    BY <1>3 DEF GroupAt, PartDown
  <1>4. CASE way = "stops"
    BY <1>1, <1>4 DEF GroupAt, PartStops, PartDown
  <1>5. CASE way = "starts"
    BY <1>1, <1>5 DEF GroupAt, PartStarts
  <1> QED BY <1>2, <1>3, <1>4, <1>5 DEF Ways

(* The stages give the counters of acknowledgements their values. *)
LEMMA StagedCounts == Typed /\ Staged => AcksCounted
  <1> SUFFICES ASSUME Typed, Staged, NEW g \in GPU
               PROVE  /\ cp[g].numCUAck = Outstanding(g, CU, Control)
                      /\ cp[g].numAddrTranslationFlushAck = Outstanding(g, AT, {"flush"})
                      /\ cp[g].numAddrTranslationRestartAck = Outstanding(g, AT, {"restart"})
                      /\ cp[g].numCacheACK = Outstanding(g, Cache, Control)
                      /\ cp[g].numTLBAck = Outstanding(g, TLB, Control)
    BY DEF AcksCounted
  <1>1. PICK s \in Stage : GPUAt(g, s)
    BY DEF Staged
  <1>2. /\ GroupAt(g, CU, CUAt(s)) /\ GroupAt(g, AT, ATAt(s)) /\ GroupAt(g, Cache, CacheAt(s))
        /\ GroupAt(g, TLB, TLBAt(s)) /\ CountAt(g, s)
    BY <1>1 DEF GPUAt
  <1>3. CUAt(s) \in Ways /\ ATAt(s) \in Ways /\ CacheAt(s) \in Ways /\ TLBAt(s) \in Ways
    BY WaysAre
  <1>4. /\ Outstanding(g, CU, Control) = Cardinality(BusyOf(g, CU))
        /\ Outstanding(g, Cache, Control) = Cardinality(BusyOf(g, Cache))
        /\ Outstanding(g, TLB, Control) = Cardinality(BusyOf(g, TLB))
    <2>1. \A X \in {CU, Cache, TLB} : X \subseteq Part
      BY PartsApart
    <2>2. \A X \in {CU, Cache, TLB} : \A p \in X : Quiet(g, p) \/ (\E k \in Control : Asked(g, p, k) \/ Replied(g, p, k))
      BY <1>2, <1>3, GroupBusy
    <2> QED BY <2>1, <2>2, OutstandingIs
  <1>5. \A p \in AT : Stop(p) = "flush" /\ p \notin Cache
    BY PartsApart DEF Stop
  <1>6. Outstanding(g, AT, {"flush"}) = IF s = "stopAT" THEN Cardinality(BusyOf(g, AT)) ELSE 0
    <2>1. CASE s = "stopAT"
      <3>1. ATAt(s) = "stops"
        BY <2>1 DEF ATAt
      <3>2. \A p \in AT : Quiet(g, p) \/ (\E k \in {"flush"} : Asked(g, p, k) \/ Replied(g, p, k))
        BY <1>2, <1>3, <1>5, <3>1, GroupBusy
      <3>3. Outstanding(g, AT, {"flush"}) = Cardinality(BusyOf(g, AT))
        BY <3>2, PartsApart, OutstandingIs
      <3> QED BY <2>1, <3>3
    <2>2. CASE s # "stopAT"
      <3>1. ATAt(s) # "stops"
        BY <2>2 DEF ATAt, Stage, Stops, Starts
      <3>2. \A p \in AT : Quiet(g, p) \/ (\E k : k \notin {"flush"} /\ (Asked(g, p, k) \/ Replied(g, p, k)))
        <4>1. ASSUME NEW p \in AT PROVE Quiet(g, p) \/ Asked(g, p, "restart") \/ Replied(g, p, "restart")
          BY <1>2, <1>3, <1>5, <3>1, GroupBusy DEF Ways
        <4>2. "restart" \notin {"flush"}
          OBVIOUS
        <4> QED BY <4>1, <4>2
      <3>3. Outstanding(g, AT, {"flush"}) = 0
        BY <3>2, OutstandingNone
      <3> QED BY <2>2, <3>3
    <2> QED BY <2>1, <2>2
  <1>7. Outstanding(g, AT, {"restart"}) = IF s = "startAT" THEN Cardinality(BusyOf(g, AT)) ELSE 0
    <2>1. CASE s = "startAT"
      <3>1. ATAt(s) = "starts"
        BY <2>1 DEF ATAt
      <3>2. \A p \in AT : Quiet(g, p) \/ (\E k \in {"restart"} : Asked(g, p, k) \/ Replied(g, p, k))
        BY <1>2, <1>3, <1>5, <3>1, GroupBusy
      <3>3. Outstanding(g, AT, {"restart"}) = Cardinality(BusyOf(g, AT))
        BY <3>2, PartsApart, OutstandingIs
      <3> QED BY <2>1, <3>3
    <2>2. CASE s # "startAT"
      <3>1. ATAt(s) # "starts"
        BY <2>2 DEF ATAt, Stage, Stops, Starts
      <3>2. \A p \in AT : Quiet(g, p) \/ (\E k : k \notin {"restart"} /\ (Asked(g, p, k) \/ Replied(g, p, k)))
        <4>1. ASSUME NEW p \in AT PROVE Quiet(g, p) \/ Asked(g, p, "flush") \/ Replied(g, p, "flush")
          BY <1>2, <1>3, <1>5, <3>1, GroupBusy DEF Ways
        <4>2. "flush" \notin {"restart"}
          OBVIOUS
        <4> QED BY <4>1, <4>2
      <3>3. Outstanding(g, AT, {"restart"}) = 0
        BY <3>2, OutstandingNone
      <3> QED BY <2>2, <3>3
    <2> QED BY <2>1, <2>2
  <1> QED BY <1>2, <1>4, <1>6, <1>7 DEF CountAt

(* Every counter of acknowledgements of a command processor counts the     *)
(* requests of its phase that are still under way (the process...Rsp       *)
(* handlers of commandprocessor.go share the counters between flushes,     *)
(* resets and restarts).                                                   *)
THEOREM AcksAlwaysCounted == Spec => []AcksCounted
  <1>1. Controlled => AcksCounted
    BY StagedCounts DEF Controlled
  <1> QED BY <1>1, DriverInvariant, PTL

-----------------------------------------------------------------------------
(* What a step of the driver does to a migration.                          *)

(* No step of the driver changes anything in a GPU. *)
GPUsKept ==
    UNCHANGED <<pmcVars, toPart, fromPart, toPMCSender, cp, dispatching, paused, tlb, dirty, accessVars>>

Says(s) == driver'.requestsToSend = driver.requestsToSend \o s /\ toDriver' = toDriver

Keeps == req' = req /\ OnePage' = OnePage /\ ToMove' = ToMove /\ pageTable' = pageTable

Holding == Keeps /\ Phase' = Phase /\ driver'.requestsToSend = driver.requestsToSend /\ toDriver' = toDriver

Forwarding ==
    /\ Keeps /\ Phase' = Phase
    /\ \E g \in GPU, c \in Command :
        /\ g = c.gpu /\ driver.requestsToSend # <<>> /\ c = Head(driver.requestsToSend)
        /\ driver'.requestsToSend = Tail(driver.requestsToSend)
        /\ toDriver' = [toDriver EXCEPT ![g] = Append(@, c)]

Ordering ==
    /\ Keeps /\ Phase' = Phase
    /\ \E s \in Seq(Command) : Says(s) /\ \A i \in DOMAIN s : s[i].type \in {"launch", "flush", "copy"}

Loading ==
    /\ Phase = "migrate" /\ Phase' = "migrate" /\ req' = req /\ pageTable' = pageTable
    /\ driver'.requestsToSend = driver.requestsToSend
    /\ OnePage = "nil" /\ ToMove # <<>> /\ ToMove' = Tail(ToMove) /\ OnePage' = Head(ToMove).page
    /\ toDriver' = [toDriver EXCEPT ![req.to] = Append(@, Head(ToMove))]

Landing ==
    /\ Phase = "migrate" /\ Phase' = "migrate" /\ req' = req /\ ToMove' = ToMove /\ pageTable' = pageTable
    /\ OnePage # "nil" /\ OnePage' = "nil"
    /\ driver'.requestsToSend = driver.requestsToSend /\ toDriver' = toDriver

Drained ==
    /\ Keeps /\ Phase = "drain" /\ Phase' = "shootdown" /\ Says(Shootdowns(req))
    /\ \A h \in GPU : Before("drain", h) = 0 /\ Inside("drain", h) = 0

Shot ==
    /\ Phase = "shootdown" /\ Phase' = "migrate" /\ req' = req
    /\ OnePage = "nil" /\ OnePage' = "nil" /\ ToMove = <<>> /\ ToMove' = Migrations(req)
    /\ pageTable' = [p \in Page |-> IF p \in req.pages THEN req.to ELSE pageTable[p]]
    /\ driver'.requestsToSend = driver.requestsToSend /\ toDriver' = toDriver

Moved ==
    /\ Phase = "migrate" /\ Phase' = "gpuRestart" /\ req' = req /\ pageTable' = pageTable
    /\ OnePage # "nil" /\ OnePage' = "nil" /\ ToMove = <<>> /\ ToMove' = <<>>
    /\ \E s \in Seq(Command) : Says(s) /\ \A i \in DOMAIN s : s[i].type = "gpuRestart"

Restarted ==
    /\ Keeps /\ Phase = "gpuRestart" /\ Phase' = "rdmaRestart"
    /\ \E s \in Seq(Command) : Says(s) /\ \A i \in DOMAIN s : s[i].type = "rdmaRestart"
    /\ \A h \in GPU : Before("rdmaRestart", h)' = 1

Over ==
    /\ Phase = "rdmaRestart" /\ Phase' = "idle" /\ req' = NoReq
    /\ OnePage' = OnePage /\ ToMove' = ToMove /\ pageTable' = pageTable
    /\ driver'.requestsToSend = driver.requestsToSend /\ toDriver' = toDriver
    /\ \A h \in GPU : Before("rdmaRestart", h) = 0 /\ Inside("rdmaRestart", h) = 0

Beginning ==
    /\ Phase = "idle" /\ Phase' = "drain" /\ mmuWaits # NoReq /\ toMMU = <<mmuWaits>> /\ req' = mmuWaits
    /\ OnePage' = OnePage /\ ToMove' = ToMove /\ pageTable' = pageTable
    /\ \E s \in Seq(Command) : Says(s) /\ \A i \in DOMAIN s : s[i].type = "drain"
    /\ \A h \in GPU : Before("drain", h)' = 1

Turns ==
    \/ Holding \/ Forwarding \/ Ordering \/ Loading \/ Landing \/ Drained \/ Shot \/ Moved
    \/ Restarted \/ Over \/ Beginning

(* A step of the driver leaves the state of the GPUs alone. *)
LEMMA DriverStepKeeps ==
    ASSUME DriverStep
    PROVE  GPUsKept
  BY DEF DriverStep, GPUsKept, SendToGPUs, SendToMMU, SendMigrationReqToCP, ProcessCommandReturn,
     ProcessRDMADrainRsp, ProcessShootdownCompleteRsp, ProcessPageMigrationRspFromCP, HandleGPURestartRsp,
     ProcessRDMARestartRspToDriver, ProcessOneCommand, ParseFromMMU, ToCPUnchanged, ReturnUnchanged,
     gpuVars, cpVars, portVars

(* The phase is that of the counter that is not zero. *)
LEMMA PhaseOf ==
    ASSUME Controlled, Controlled'
    PROVE  /\ \A k \in Sweeps \cup {"migrate"} : Count(k) # 0 <=> Phase = k
           /\ \A k \in Sweeps \cup {"migrate"} : Count(k)' # 0 <=> Phase' = k
  BY DEF Controlled, Driven, Phased

(* An acknowledgement that is not the last one leaves the driver in its phase. *)
LEMMA SteadyTurn ==
    ASSUME Controlled, Controlled', driver \in DriverState,
           req' = req, Handling' = Handling, OnePage' = OnePage, ToMove' = ToMove, pageTable' = pageTable,
           driver'.requestsToSend = driver.requestsToSend, toDriver' = toDriver,
           NEW k \in Sweeps, Count(k) # 0, Count(k)' # 0
    PROVE  Holding
  <1>1. Phase = k /\ Phase' = k
    BY PhaseOf
  <1> QED BY <1>1 DEF Holding, Keeps

(* Steps of the driver that belong to no phase of a migration. *)
LEMMA CallsTurn ==
    ASSUME Controlled, Controlled', SendToGPUs \/ SendToMMU \/ ProcessOneCommand \/ \E g \in GPU : ProcessCommandReturn(g)
    PROVE  Turns
  <1>1. driver \in DriverState /\ Typed
    BY DriverIs DEF Controlled
  <1>2. CASE SendToGPUs
    <2>1. driver.requestsToSend \in Seq(Command) /\ driver.requestsToSend # <<>>
      BY <1>1, <1>2, DriverIs DEF SendToGPUs
    <2>2. PICK c \in Command : c = Head(driver.requestsToSend)
      BY <2>1
    <2>3. PICK g \in GPU : g = c.gpu
      BY DEF Command
    <2>4. /\ toDriver' = [toDriver EXCEPT ![g] = Append(@, c)] /\ pageTable' = pageTable
          /\ driver' = [driver EXCEPT !.requestsToSend = Tail(driver.requestsToSend)]
      BY <1>2, <2>2, <2>3 DEF SendToGPUs, SendToCP, ToCPUnchanged, tableVars
    <2>5. driver'.requestsToSend = Tail(driver.requestsToSend) /\ DriverKept
      BY <1>1, <2>4 DEF DriverState, DriverKept
    <2>6. Keeps /\ Phase' = Phase
      BY <2>4, <2>5 DEF DriverKept, Keeps, req, OnePage, ToMove, Phase, Handling
    <2> QED BY <2>1, <2>2, <2>3, <2>4, <2>5, <2>6 DEF Turns, Forwarding
  <1>3. CASE SendToMMU
    <2>1. driver' = [driver EXCEPT !.toSendToMMU = FALSE] /\ pageTable' = pageTable /\ toDriver' = toDriver
      BY <1>3 DEF SendToMMU, cpVars, portVars, tableVars
    <2>2. /\ driver'.requestsToSend = driver.requestsToSend
          /\ driver'.currentPageMigrationReq = driver.currentPageMigrationReq
          /\ driver'.isCurrentlyHandlingMigrationReq = driver.isCurrentlyHandlingMigrationReq
          /\ driver'.migrationReqToSendToCP = driver.migrationReqToSendToCP
          /\ driver'.isCurrentlyMigratingOnePage = driver.isCurrentlyMigratingOnePage
          /\ driver'.numRDMADrainACK = driver.numRDMADrainACK
          /\ driver'.numShootDownACK = driver.numShootDownACK
          /\ driver'.numPagesMigratingACK = driver.numPagesMigratingACK
          /\ driver'.numRestartACK = driver.numRestartACK
      BY <1>1, <2>1 DEF DriverState
    <2>3. Keeps /\ Phase' = Phase
      BY <2>1, <2>2 DEF Keeps, req, OnePage, ToMove, Phase, Handling
    <2> QED BY <2>1, <2>2, <2>3 DEF Turns, Holding
  <1>4. CASE ProcessOneCommand
    <2>1. PICK G \in SUBSET GPU : G = IF Head(queue).type = "copy" THEN {pageTable[Head(queue).page]} ELSE GPU
      <3>1. queue \in Seq(QueueCommand) /\ queue # <<>> /\ pageTable \in [Page -> GPU]
        BY <1>1, <1>4 DEF Typed, ProcessOneCommand
      <3>2. Head(queue) \in QueueCommand
        BY <3>1
      <3> QED BY <3>1, <3>2 DEF QueueCommand
    <2>2. PICK t \in {"launch", "flush", "copy"} : t = Head(queue).type
      <3>1. queue \in Seq(QueueCommand) /\ queue # <<>>
        BY <1>1, <1>4 DEF Typed, ProcessOneCommand
      <3>2. Head(queue) \in QueueCommand
        BY <3>1
      <3> QED BY <3>2 DEF QueueCommand
    <2>3. ToEach(t, G) \in Seq(Command) /\ \A i \in DOMAIN ToEach(t, G) : ToEach(t, G)[i].type = t
      <3>1. t \in Plain
        BY DEF Plain
      <3> QED BY <3>1, ToEachIs
    <2>4. PICK s \in Seq(Command) : s = ToEach(t, G)
      BY <2>3
    <2>5. driver' = [driver EXCEPT !.requestsToSend = driver.requestsToSend \o s] /\ pageTable' = pageTable
          /\ toDriver' = toDriver
      <3>1. driver' = [driver EXCEPT !.requestsToSend = @ \o ToEach(t, G)]
        BY <1>4, <2>1, <2>2 DEF ProcessOneCommand
      <3>2. pageTable' = pageTable /\ toDriver' = toDriver
        BY <1>4 DEF ProcessOneCommand, cpVars, portVars, tableVars
      <3> QED BY <2>4, <3>1, <3>2
    <2>6. driver'.requestsToSend = driver.requestsToSend \o s /\ DriverKept
      BY <1>1, <2>5 DEF DriverState, DriverKept
    <2>7. Keeps /\ Phase' = Phase
      BY <2>5, <2>6 DEF DriverKept, Keeps, req, OnePage, ToMove, Phase, Handling
    <2>8. \A i \in DOMAIN s : s[i].type \in {"launch", "flush", "copy"}
      BY <2>3, <2>4
    <2>9. Says(s)
      BY <2>5, <2>6 DEF Says
    <2> QED BY <2>7, <2>8, <2>9 DEF Turns, Ordering
  <1>5. CASE \E g \in GPU : ProcessCommandReturn(g)
    <2>1. driver' = driver /\ pageTable' = pageTable /\ toDriver' = toDriver
      BY <1>5 DEF ProcessCommandReturn, tableVars
    <2>2. Keeps /\ Phase' = Phase
      BY <2>1 DEF Keeps, req, OnePage, ToMove, Phase, Handling
    <2> QED BY <2>1, <2>2 DEF Turns, Holding
  <1> QED BY <1>2, <1>3, <1>4, <1>5

(* A page sent to its command processor (SendMigrationReqToCP). *)
LEMMA PageTurns ==
    ASSUME Controlled, Controlled', SendMigrationReqToCP
    PROVE  Loading
  <1>1. driver \in DriverState /\ Typed /\ Driven
    BY DriverIs DEF Controlled
  <1>2. OnePage = "nil" /\ ToMove # <<>> /\ ToMove \in Seq(Command)
    BY <1>1, DriverIs DEF SendMigrationReqToCP, OnePage, ToMove
  <1>3. PICK c \in Command : c = Head(ToMove)
    BY <1>2
  <1>4. PICK q \in Seq(Command) : q = Tail(ToMove)
    <2>1. PICK m \in Seq(Command) : m = ToMove /\ m # <<>>
      BY <1>2
    <2>2. Tail(m) \in Seq(Command)
      BY <2>1, HeadTailProperties
    <2> QED BY <2>1, <2>2
  <1>5. /\ toDriver' = [toDriver EXCEPT ![c.gpu] = Append(@, c)] /\ pageTable' = pageTable
        /\ driver' = [driver EXCEPT !.migrationReqToSendToCP = q, !.isCurrentlyMigratingOnePage = c.page]
    BY <1>3, <1>4 DEF SendMigrationReqToCP, SendToCP, ToCPUnchanged, ToMove, tableVars
  <1>6. /\ driver'.requestsToSend = driver.requestsToSend /\ req' = req /\ Handling' = Handling
        /\ ToMove' = q /\ OnePage' = c.page
        /\ driver'.numRDMADrainACK = driver.numRDMADrainACK /\ driver'.numShootDownACK = driver.numShootDownACK
        /\ driver'.numPagesMigratingACK = driver.numPagesMigratingACK
        /\ driver'.numRestartACK = driver.numRestartACK
    BY <1>1, <1>5 DEF DriverState, req, Handling, ToMove, OnePage
  <1>7. Phase' = Phase
    BY <1>6 DEF Phase, Handling
  <1>8. Count("migrate") # 0
    <2>1. Len(ToMove) \in Nat /\ Len(ToMove) # 0
      BY <1>2, EmptySeq
    <2>2. Count("migrate") = Len(ToMove) + 0
      BY <1>1, <1>2 DEF Driven, Paging, One
    <2> QED BY <2>1, <2>2
  <1>9. Phase = "migrate"
    BY <1>8, PhaseOf
  <1>10. c.gpu = req.to
    <2>1. ToMove \in Seq([type : {"migrate"}, gpu : {req.to}, page : req.pages, from : {req.host}])
      BY <1>1, <1>9 DEF Driven, Paging
    <2>2. PICK M : M = [type : {"migrate"}, gpu : {req.to}, page : req.pages, from : {req.host}]
      OBVIOUS
    <2>3. PICK m \in Seq(M) : m = ToMove /\ m # <<>>
      BY <1>2, <2>1, <2>2
    <2>4. Head(m) \in M
      BY <2>3, HeadTailProperties
    <2>5. c \in M
      BY <1>3, <2>3, <2>4
    <2> QED BY <2>2, <2>5
  <1> QED BY <1>2, <1>3, <1>4, <1>5, <1>6, <1>7, <1>9, <1>10 DEF Loading

-----------------------------------------------------------------------------
(* A counter that comes to its end: the GPU whose answer is taken was the  *)
(* last one the driver waited for.                                         *)
LEMMA LastOne ==
    ASSUME Controlled, NEW k \in Sweeps, NEW g \in GPU, Return(g, k)
    PROVE  /\ Phase = k /\ Handling /\ Legal(req) /\ Count(k) # 0
           /\ Count(k) - 1 = 0 => \A h \in GPU : Before(k, h) = 0 /\ Inside(k, h) = 0
  <1>1. Typed /\ Driven /\ Phased /\ k \in Kinds
    BY KindsAre DEF Controlled, Driven
  <1>2. After(k, g) # 0 /\ Under(k, g) # 0
    BY <1>1, AnswerUnder
  <1>3. /\ Phase = k /\ Under(k, g) = 1 /\ Handling
        /\ Count(k) - 1 = 0 => \A h \in GPU : h # g => Under(k, h) = 0
    BY <1>1, <1>2, SweepAnswered
  <1>4. Legal(req)
    BY <1>1, <1>3 DEF Phased
  <1>5. Count(k) # 0
    BY <1>1, <1>3 DEF Phased
  <1>6. ASSUME Count(k) - 1 = 0, NEW h \in GPU PROVE Before(k, h) = 0 /\ Inside(k, h) = 0
    <2>1. /\ Before(k, h) \in Nat /\ Inside(k, h) \in Nat /\ After(k, h) \in Nat
          /\ Under(k, h) = Before(k, h) + Inside(k, h) + After(k, h)
      BY <1>1, UnderIs
    <2>2. h # g => Under(k, h) = 0
      BY <1>3, <1>6
    <2> QED BY <1>2, <1>3, <2>1, <2>2
  <1> QED BY <1>3, <1>4, <1>5, <1>6

(* An answer leaves the commands to the GPUs alone. *)
LEMMA AnswerSame ==
    ASSUME NEW g, ReturnUnchanged
    PROVE  toDriver' = toDriver
  BY DEF ReturnUnchanged

(* The RDMA engines have drained: the last answer starts the shootdown. *)
LEMMA DrainTurns ==
    ASSUME Controlled, Controlled', NEW g \in GPU, ProcessRDMADrainRsp(g)
    PROVE  Turns
  <1>1. driver \in DriverState /\ Typed /\ "drain" \in Sweeps /\ "shootdown" \in Sweeps
    BY DriverIs, KindsAre DEF Controlled
  <1>2. Return(g, "drain") /\ pageTable' = pageTable /\ toDriver' = toDriver
    BY AnswerSame DEF ProcessRDMADrainRsp, tableVars
  <1>3. /\ Phase = "drain" /\ Handling /\ Legal(req) /\ Count("drain") # 0
        /\ Count("drain") - 1 = 0 => \A h \in GPU : Before("drain", h) = 0 /\ Inside("drain", h) = 0
    BY <1>1, <1>2, LastOne
  <1>4. PICK n \in Int : n = driver.numRDMADrainACK - 1
    BY <1>1 DEF DriverState
  <1>5. n = Count("drain") - 1
    BY <1>4, CountIs
  <1>6. CASE n # 0
    <2>1. driver' = [driver EXCEPT !.numRDMADrainACK = n]
      BY <1>4, <1>6 DEF ProcessRDMADrainRsp, LastAnswer
    <2>2. driver'.numRDMADrainACK = n /\ driver'.requestsToSend = driver.requestsToSend /\ req' = req
          /\ Handling' = Handling /\ ToMove' = ToMove /\ OnePage' = OnePage
      BY <1>1, <2>1 DEF DriverState, req, Handling, ToMove, OnePage
    <2>3. Count("drain")' # 0
      BY <1>6, <2>2, CountIsNext
    <2>4. Holding
      BY <1>1, <1>2, <1>3, <2>2, <2>3, SteadyTurn
    <2> QED BY <2>4 DEF Turns
  <1>7. CASE n = 0
    <2>1. PICK r \in PageMigrationReq : r = req /\ r.accessing # {} /\ r.accessing \in SUBSET GPU
      BY <1>3 DEF Legal, PageMigrationReq
    <2>2. PICK s \in Seq(Command) : s = Shootdowns(r)
      BY ShootdownsIs
    <2>3. PICK c \in Int : c = Cardinality(r.accessing) /\ c # 0
      <3>1. IsFiniteSet(r.accessing)
        BY <2>1, DriverAssumption, FS_Subset
      <3> QED BY <2>1, <3>1, CountZero
    <2>4. driver' = [driver EXCEPT !.numRDMADrainACK = n, !.numShootDownACK = c,
                                   !.requestsToSend = driver.requestsToSend \o s]
      BY <1>4, <1>7, <2>1, <2>2, <2>3 DEF ProcessRDMADrainRsp, LastAnswer, req
    <2>5. driver'.numShootDownACK = c /\ driver'.requestsToSend = driver.requestsToSend \o s /\ req' = req
          /\ ToMove' = ToMove /\ OnePage' = OnePage
      BY <1>1, <2>4 DEF DriverState, req, ToMove, OnePage
    <2>6. Count("shootdown")' # 0
      BY <2>3, <2>5, CountIsNext
    <2>7. Phase' = "shootdown"
      BY <1>1, <2>6, PhaseOf
    <2>8. \A h \in GPU : Before("drain", h) = 0 /\ Inside("drain", h) = 0
      BY <1>3, <1>5, <1>7
    <2>9. Says(Shootdowns(req)) /\ Keeps
      BY <1>2, <2>1, <2>2, <2>5 DEF Says, Keeps
    <2> QED BY <1>3, <2>7, <2>8, <2>9 DEF Turns, Drained
  <1> QED BY <1>6, <1>7

(* The GPUs have stopped: the last answer starts the migration. *)
LEMMA ShootdownTurns ==
    ASSUME Controlled, Controlled', NEW g \in GPU, ProcessShootdownCompleteRsp(g)
    PROVE  Turns
  <1>1. driver \in DriverState /\ Typed /\ Driven /\ "shootdown" \in Sweeps /\ "migrate" \notin Sweeps
    BY DriverIs, KindsAre DEF Controlled, Sweeps
  <1>2. Return(g, "shootdown") /\ toDriver' = toDriver
    BY AnswerSame DEF ProcessShootdownCompleteRsp
  <1>3. /\ Phase = "shootdown" /\ Handling /\ Legal(req) /\ Count("shootdown") # 0
    BY <1>1, <1>2, LastOne
  <1>4. PICK n \in Int : n = driver.numShootDownACK - 1
    BY <1>1 DEF DriverState
  <1>5. n = Count("shootdown") - 1
    BY <1>4, CountIs
  <1>6. CASE n # 0
    <2>1. driver' = [driver EXCEPT !.numShootDownACK = n] /\ pageTable' = pageTable
      BY <1>4, <1>6 DEF ProcessShootdownCompleteRsp, LastAnswer, tableVars
    <2>2. driver'.numShootDownACK = n /\ driver'.requestsToSend = driver.requestsToSend /\ req' = req
          /\ Handling' = Handling /\ ToMove' = ToMove /\ OnePage' = OnePage
      BY <1>1, <2>1 DEF DriverState, req, Handling, ToMove, OnePage
    <2>3. Count("shootdown")' # 0
      BY <1>6, <2>2, CountIsNext
    <2>4. Holding
      BY <1>1, <1>2, <1>3, <2>1, <2>2, <2>3, SteadyTurn
    <2> QED BY <2>4 DEF Turns
  <1>7. CASE n = 0
    <2>1. PICK r \in PageMigrationReq : r = req /\ r.pages # {} /\ r.pages \in SUBSET Page
      BY <1>3 DEF Legal, PageMigrationReq
    <2>2. /\ Count("migrate") = 0 /\ OnePage = "nil" /\ ToMove = <<>>
      BY <1>1, <1>3, MoveIs
    <2>3. PICK s \in Seq(MoveMsg(r)) : s = Migrations(r)
      BY MigrationsIs
    <2>4. PICK c \in Int : c = Cardinality(r.pages) /\ c # 0
      <3>1. IsFiniteSet(r.pages)
        BY <2>1, DriverAssumption, FS_Subset
      <3> QED BY <2>1, <3>1, CountZero
    <2>5. driver.numPagesMigratingACK + Cardinality(r.pages) = c /\ driver.migrationReqToSendToCP \o Migrations(r) = s
      <3>1. driver.numPagesMigratingACK = 0 /\ driver.migrationReqToSendToCP = <<>>
        BY <2>2, CountIs DEF ToMove
      <3>2. <<>> \o s = s
        BY <2>3
      <3> QED BY <2>3, <2>4, <3>1, <3>2
    <2>6. /\ driver' = [driver EXCEPT !.numShootDownACK = n, !.numPagesMigratingACK = c, !.migrationReqToSendToCP = s]
          /\ pageTable' = [p \in Page |-> IF p \in r.pages THEN r.to ELSE pageTable[p]]
      <3> DEFINE m == driver.numPagesMigratingACK + Cardinality(r.pages)
                 q == driver.migrationReqToSendToCP \o Migrations(r)
      <3>1. /\ driver' = [driver EXCEPT !.numShootDownACK = n, !.numPagesMigratingACK = m, !.migrationReqToSendToCP = q]
            /\ pageTable' = [p \in Page |-> IF p \in r.pages THEN r.to ELSE pageTable[p]]
        BY <1>4, <1>7, <2>1 DEF ProcessShootdownCompleteRsp, LastAnswer, req
      <3>2. m = c /\ q = s
        BY <2>5
      <3> QED BY <3>1, <3>2
    <2>7. driver'.numPagesMigratingACK = c /\ driver'.requestsToSend = driver.requestsToSend /\ req' = req
          /\ ToMove' = s /\ OnePage' = OnePage
      BY <1>1, <2>6 DEF DriverState, req, ToMove, OnePage
    <2>8. Count("migrate")' # 0
      BY <2>4, <2>7, CountIsNext
    <2>9. Phase' = "migrate"
      BY <1>1, <2>8, PhaseOf
    <2> QED BY <1>2, <1>3, <2>1, <2>2, <2>3, <2>6, <2>7, <2>9 DEF Turns, Shot
  <1> QED BY <1>6, <1>7

(* A page has arrived: the last answer starts the restart. *)
LEMMA MigrateTurns ==
    ASSUME Controlled, Controlled', NEW g \in GPU, ProcessPageMigrationRspFromCP(g)
    PROVE  Turns
  <1>1. driver \in DriverState /\ Typed /\ Driven /\ Paging /\ "gpuRestart" \in Sweeps /\ "migrate" \in Kinds
    BY DriverIs, KindsAre DEF Controlled, Driven
  <1>2. Return(g, "migrate") /\ toDriver' = toDriver /\ pageTable' = pageTable
    BY AnswerSame DEF ProcessPageMigrationRspFromCP, tableVars
  <1>3. After("migrate", g) # 0 /\ Under("migrate", g) # 0
    BY <1>1, <1>2, AnswerUnder
  <1>4. OnePage # "nil"
    BY <1>1, <1>3 DEF Paging, One
  <1>5. Count("migrate") = Len(ToMove) + 1 /\ Len(ToMove) \in Nat /\ ToMove \in Seq(Command)
    <2>1. Count("migrate") = Len(ToMove) + 1
      BY <1>1, <1>4 DEF Paging, One
    <2>2. ToMove \in Seq(Command)
      BY <1>1, DriverIs
    <2> QED BY <2>1, <2>2, LenProperties
  <1>6. Phase = "migrate"
    <2>1. Count("migrate") # 0
      BY <1>5
    <2> QED BY <2>1, PhaseOf
  <1>7. Handling /\ Legal(req)
    <2>1. Handling
      BY <1>6, PhaseIs DEF PhaseFacts
    <2> QED BY <1>1, <2>1 DEF Driven, Phased
  <1>8. PICK n \in Int : n = driver.numPagesMigratingACK - 1
    BY <1>1 DEF DriverState
  <1>9. n = Len(ToMove)
    BY <1>5, <1>8, CountIs
  <1>10. CASE n # 0
    <2>1. driver' = [driver EXCEPT !.numPagesMigratingACK = n, !.isCurrentlyMigratingOnePage = "nil"]
      BY <1>8, <1>10 DEF ProcessPageMigrationRspFromCP, LastAnswer
    <2>2. driver'.numPagesMigratingACK = n /\ driver'.requestsToSend = driver.requestsToSend /\ req' = req
          /\ ToMove' = ToMove /\ OnePage' = "nil"
      BY <1>1, <2>1 DEF DriverState, req, ToMove, OnePage
    <2>3. Count("migrate")' # 0
      BY <1>10, <2>2, CountIsNext
    <2>4. Phase' = "migrate"
      BY <2>3, PhaseOf
    <2> QED BY <1>2, <1>4, <1>6, <2>2, <2>4 DEF Turns, Landing
  <1>11. CASE n = 0
    <2>1. PICK r \in PageMigrationReq : r = req /\ r.accessing # {} /\ r.accessing \in SUBSET GPU
      BY <1>7 DEF Legal, PageMigrationReq
    <2>2. ToEach("gpuRestart", r.accessing) \in Seq(Command)
          /\ \A i \in DOMAIN ToEach("gpuRestart", r.accessing) : ToEach("gpuRestart", r.accessing)[i].type = "gpuRestart"
      <3>1. "gpuRestart" \in Plain
        BY DEF Plain
      <3> QED BY <2>1, <3>1, ToEachIs
    <2>3. PICK s \in Seq(Command) : s = ToEach("gpuRestart", r.accessing)
      BY <2>2
    <2>4. PICK c \in Int : c = driver.numRestartACK + Cardinality(r.accessing) /\ c # 0
      <3>1. IsFiniteSet(r.accessing)
        BY <2>1, DriverAssumption, FS_Subset
      <3>2. Cardinality(r.accessing) \in Nat /\ Cardinality(r.accessing) # 0
        BY <2>1, <3>1, CountZero
      <3>3. Count("gpuRestart") = 0
        BY <1>1, <1>6, PhaseOf
      <3>4. driver.numRestartACK = 0
        BY <3>3, CountIs
      <3> QED BY <3>2, <3>4
    <2>5. driver' = [driver EXCEPT !.numPagesMigratingACK = n, !.isCurrentlyMigratingOnePage = "nil",
                                   !.requestsToSend = driver.requestsToSend \o s, !.numRestartACK = c,
                                   !.toSendToMMU = TRUE]
      <3>1. driver' = [driver EXCEPT !.numPagesMigratingACK = n, !.isCurrentlyMigratingOnePage = "nil",
                                   !.requestsToSend = @ \o s, !.numRestartACK = @ + Cardinality(r.accessing),
                                   !.toSendToMMU = TRUE]
        BY <1>8, <1>11, <2>1, <2>3 DEF ProcessPageMigrationRspFromCP, LastAnswer, req
      <3> QED BY <2>4, <3>1
    <2>6. driver'.numRestartACK = c /\ driver'.requestsToSend = driver.requestsToSend \o s /\ req' = req
          /\ ToMove' = ToMove /\ OnePage' = "nil"
      BY <1>1, <2>5 DEF DriverState, req, ToMove, OnePage
    <2>7. Count("gpuRestart")' # 0
      BY <2>4, <2>6, CountIsNext
    <2>8. Phase' = "gpuRestart"
      BY <1>1, <2>7, PhaseOf
    <2>9. ToMove = <<>>
      BY <1>5, <1>9, <1>11, EmptySeq
    <2>10. Says(s) /\ \A i \in DOMAIN s : s[i].type = "gpuRestart"
      BY <1>2, <2>2, <2>3, <2>6 DEF Says
    <2> QED BY <1>2, <1>4, <1>6, <2>6, <2>8, <2>9, <2>10 DEF Turns, Moved
  <1> QED BY <1>10, <1>11

-----------------------------------------------------------------------------
(* The GPUs run again: the last answer restarts the RDMA engines. *)
LEMMA RestartTurns ==
    ASSUME Controlled, Controlled', NEW g \in GPU, HandleGPURestartRsp(g)
    PROVE  Turns
  <1>1. driver \in DriverState /\ Typed /\ Driven /\ "gpuRestart" \in Sweeps /\ "rdmaRestart" \in Sweeps
        /\ "rdmaRestart" \in Kinds
    BY DriverIs, KindsAre DEF Controlled
  <1>2. Return(g, "gpuRestart") /\ toDriver' = toDriver /\ pageTable' = pageTable
    BY AnswerSame DEF HandleGPURestartRsp, tableVars
  <1>3. /\ Phase = "gpuRestart" /\ Handling /\ Count("gpuRestart") # 0
    BY <1>1, <1>2, LastOne
  <1>4. PICK n \in Int : n = driver.numRestartACK - 1
    BY <1>1 DEF DriverState
  <1>6. CASE n # 0
    <2>1. driver' = [driver EXCEPT !.numRestartACK = n]
      BY <1>4, <1>6 DEF HandleGPURestartRsp, LastAnswer
    <2>2. driver'.numRestartACK = n /\ driver'.requestsToSend = driver.requestsToSend /\ req' = req
          /\ Handling' = Handling /\ ToMove' = ToMove /\ OnePage' = OnePage
      BY <1>1, <2>1 DEF DriverState, req, Handling, ToMove, OnePage
    <2>3. Count("gpuRestart")' # 0
      BY <1>6, <2>2, CountIsNext
    <2>4. Holding
      BY <1>1, <1>2, <1>3, <2>2, <2>3, SteadyTurn
    <2> QED BY <2>4 DEF Turns
  <1>7. CASE n = 0
    <2>1. PICK G \in SUBSET GPU : G = GPU
      OBVIOUS
    <2>2. /\ ToEach("rdmaRestart", G) \in Seq(Command)
          /\ \A k : \A h \in GPU : Number(ToEach("rdmaRestart", G), CommandFor(k, h)) = One(k = "rdmaRestart" /\ h \in G)
          /\ \A i \in DOMAIN ToEach("rdmaRestart", G) : ToEach("rdmaRestart", G)[i].type = "rdmaRestart"
      <3>1. "rdmaRestart" \in Plain
        BY DEF Plain
      <3> QED BY <2>1, <3>1, ToEachIs
    <2>3. PICK s \in Seq(Command) : s = ToEach("rdmaRestart", G)
      BY <2>2
    <2>4. PICK c \in Int : c = driver.numRDMARestartACK + Cardinality(G) /\ c # 0
      <3>1. IsFiniteSet(G) /\ G # {}
        BY <2>1, DriverAssumption
      <3>2. Cardinality(G) \in Nat /\ Cardinality(G) # 0
        BY <3>1, CountZero
      <3>3. "rdmaRestart" # "gpuRestart"
        OBVIOUS
      <3>4. Count("rdmaRestart") = 0
        BY <1>1, <1>3, <3>3, PhaseOf
      <3>5. driver.numRDMARestartACK = 0
        BY <3>4, CountIs
      <3> QED BY <3>2, <3>5
    <2>5. driver' = [driver EXCEPT !.numRestartACK = n, !.requestsToSend = driver.requestsToSend \o s,
                                   !.numRDMARestartACK = c]
      <3>1. driver' = [driver EXCEPT !.numRestartACK = n, !.requestsToSend = @ \o s,
                                     !.numRDMARestartACK = @ + Cardinality(G)]
        BY <1>4, <1>7, <2>1, <2>3 DEF HandleGPURestartRsp, LastAnswer
      <3> QED BY <2>4, <3>1
    <2>6. driver'.numRDMARestartACK = c /\ driver'.requestsToSend = driver.requestsToSend \o s /\ req' = req
          /\ ToMove' = ToMove /\ OnePage' = OnePage
      BY <1>1, <2>5 DEF DriverState, req, ToMove, OnePage
    <2>7. Count("rdmaRestart")' # 0
      BY <2>4, <2>6, CountIsNext
    <2>8. Phase' = "rdmaRestart"
      BY <1>1, <2>7, PhaseOf
    <2>9. Says(s) /\ \A i \in DOMAIN s : s[i].type = "rdmaRestart"
      BY <1>2, <2>2, <2>3, <2>6 DEF Says
    <2>10. \A h \in GPU : Before("rdmaRestart", h)' = 1
      <3>1. \A h \in GPU : Number(s, CommandFor("rdmaRestart", h)) = 1
        BY <2>1, <2>2, <2>3 DEF One
      <3>2. \A k : \A h \in GPU : Before(k, h)' = Before(k, h) + Number(s, CommandFor(k, h))
        BY <1>1, <1>2, <2>6, BeforeGrown
      <3>3. \A h \in GPU : Before("rdmaRestart", h) = 0
        <4>1. \A h \in GPU : Under("rdmaRestart", h) = 0
          BY <1>1, <1>3, SweepIs DEF Driven
        <4>2. \A h \in GPU : /\ Before("rdmaRestart", h) \in Nat /\ Inside("rdmaRestart", h) \in Nat
                             /\ After("rdmaRestart", h) \in Nat
                             /\ Under("rdmaRestart", h) = Before("rdmaRestart", h) + Inside("rdmaRestart", h)
                                                          + After("rdmaRestart", h)
          BY <1>1, UnderIs
        <4> QED BY <4>1, <4>2
      <3> QED BY <3>1, <3>2, <3>3
    <2> QED BY <1>2, <1>3, <2>6, <2>8, <2>9, <2>10 DEF Turns, Restarted, Keeps
  <1> QED BY <1>6, <1>7

(* The RDMA engines run again: the last answer ends the migration. *)
LEMMA RDMARestartTurns ==
    ASSUME Controlled, Controlled', NEW g \in GPU, ProcessRDMARestartRspToDriver(g)
    PROVE  Turns
  <1>1. driver \in DriverState /\ Typed /\ "rdmaRestart" \in Sweeps
    BY DriverIs, KindsAre DEF Controlled
  <1>2. Return(g, "rdmaRestart") /\ toDriver' = toDriver /\ pageTable' = pageTable
    BY AnswerSame DEF ProcessRDMARestartRspToDriver, tableVars
  <1>3. /\ Phase = "rdmaRestart" /\ Handling /\ Count("rdmaRestart") # 0
        /\ Count("rdmaRestart") - 1 = 0 => \A h \in GPU : Before("rdmaRestart", h) = 0 /\ Inside("rdmaRestart", h) = 0
    BY <1>1, <1>2, LastOne
  <1>4. PICK n \in Int : n = driver.numRDMARestartACK - 1
    BY <1>1 DEF DriverState
  <1>5. n = Count("rdmaRestart") - 1
    BY <1>4, CountIs
  <1>6. CASE n # 0
    <2>1. driver' = [driver EXCEPT !.numRDMARestartACK = n]
      BY <1>4, <1>6 DEF ProcessRDMARestartRspToDriver, LastAnswer
    <2>2. driver'.numRDMARestartACK = n /\ driver'.requestsToSend = driver.requestsToSend /\ req' = req
          /\ Handling' = Handling /\ ToMove' = ToMove /\ OnePage' = OnePage
      BY <1>1, <2>1 DEF DriverState, req, Handling, ToMove, OnePage
    <2>3. Count("rdmaRestart")' # 0
      BY <1>6, <2>2, CountIsNext
    <2>4. Holding
      BY <1>1, <1>2, <1>3, <2>2, <2>3, SteadyTurn
    <2> QED BY <2>4 DEF Turns
  <1>7. CASE n = 0
    <2>1. driver' = [driver EXCEPT !.numRDMARestartACK = n, !.currentPageMigrationReq = NoReq,
                                   !.isCurrentlyHandlingMigrationReq = FALSE]
      BY <1>4, <1>7 DEF ProcessRDMARestartRspToDriver, LastAnswer
    <2>2. driver'.requestsToSend = driver.requestsToSend /\ req' = NoReq
          /\ ~Handling' /\ ToMove' = ToMove /\ OnePage' = OnePage
      BY <1>1, <2>1 DEF DriverState, req, Handling, ToMove, OnePage
    <2>3. Phase' = "idle"
      BY <2>2, PhaseIsNext DEF PhaseFacts
    <2>4. \A h \in GPU : Before("rdmaRestart", h) = 0 /\ Inside("rdmaRestart", h) = 0
      BY <1>3, <1>5, <1>7
    <2> QED BY <1>2, <1>3, <2>2, <2>3, <2>4 DEF Turns, Over
  <1> QED BY <1>6, <1>7

(* A request of the MMU starts a migration. *)
LEMMA MigrationTurns ==
    ASSUME Controlled, Controlled', ParseFromMMU
    PROVE  Turns
  <1>1. driver \in DriverState /\ Typed /\ Driven /\ "drain" \in Sweeps /\ "drain" \in Kinds
    BY DriverIs, KindsAre DEF Controlled
  <1>2. ~Handling /\ toMMU # <<>> /\ toDriver' = toDriver /\ pageTable' = pageTable
    BY DEF ParseFromMMU, Handling, cpVars, portVars, tableVars
  <1>3. Phase = "idle"
    BY <1>2, PhaseIs DEF PhaseFacts
  <1>4. mmuWaits # NoReq /\ toMMU = <<mmuWaits>>
    BY <1>1, <1>2 DEF Driven, Asking
  <1>5. PICK w \in PageMigrationReq : w = mmuWaits
    BY <1>1, <1>4 DEF Typed
  <1>6. Head(toMMU) = w
    BY <1>4, <1>5
  <1>7. PICK G \in SUBSET GPU : G = GPU
    OBVIOUS
  <1>8. /\ ToEach("drain", G) \in Seq(Command)
        /\ \A k : \A h \in GPU : Number(ToEach("drain", G), CommandFor(k, h)) = One(k = "drain" /\ h \in G)
        /\ \A i \in DOMAIN ToEach("drain", G) : ToEach("drain", G)[i].type = "drain"
    <2>1. "drain" \in Plain
      BY DEF Plain
    <2> QED BY <1>7, <2>1, ToEachIs
  <1>9. PICK s \in Seq(Command) : s = ToEach("drain", G)
    BY <1>8
  <1>10. PICK c \in Int : c = driver.numRDMADrainACK + Cardinality(G) /\ c # 0
    <2>1. IsFiniteSet(G) /\ G # {}
      <3>1. w.to \in GPU
        BY DEF PageMigrationReq
      <3> QED BY <1>7, <3>1, DriverAssumption
    <2>2. Cardinality(G) \in Nat /\ Cardinality(G) # 0
      BY <2>1, CountZero
    <2>3. "drain" # "idle"
      OBVIOUS
    <2>4. Count("drain") = 0
      BY <1>1, <1>3, <2>3, PhaseOf
    <2>5. driver.numRDMADrainACK = 0
      BY <2>4, CountIs
    <2> QED BY <2>2, <2>5
  <1>11. driver' = [driver EXCEPT !.currentPageMigrationReq = w, !.isCurrentlyHandlingMigrationReq = TRUE,
                                  !.requestsToSend = driver.requestsToSend \o s, !.numRDMADrainACK = c]
    <2>1. driver' = [driver EXCEPT !.currentPageMigrationReq = w, !.isCurrentlyHandlingMigrationReq = TRUE,
                                   !.requestsToSend = @ \o s, !.numRDMADrainACK = @ + Cardinality(G)]
      BY <1>6, <1>7, <1>9 DEF ParseFromMMU
    <2> QED BY <1>10, <2>1
  <1>12. driver'.numRDMADrainACK = c /\ driver'.requestsToSend = driver.requestsToSend \o s /\ req' = w
         /\ ToMove' = ToMove /\ OnePage' = OnePage
    BY <1>1, <1>11 DEF DriverState, req, ToMove, OnePage
  <1>13. Count("drain")' # 0
    BY <1>10, <1>12, CountIsNext
  <1>14. Phase' = "drain"
    BY <1>1, <1>13, PhaseOf
  <1>15. Says(s) /\ \A i \in DOMAIN s : s[i].type = "drain"
    BY <1>2, <1>8, <1>9, <1>12 DEF Says
  <1>16. \A h \in GPU : Before("drain", h)' = 1
    <2>1. \A h \in GPU : Number(s, CommandFor("drain", h)) = 1
      BY <1>7, <1>8, <1>9 DEF One
    <2>2. \A k : \A h \in GPU : Before(k, h)' = Before(k, h) + Number(s, CommandFor(k, h))
      BY <1>1, <1>2, <1>12, BeforeGrown
    <2>3. \A h \in GPU : Before("drain", h) = 0
      <3>1. \A h \in GPU : Under("drain", h) = 0
        BY <1>1, <1>3, SweepIs DEF Driven
      <3>2. \A h \in GPU : /\ Before("drain", h) \in Nat /\ Inside("drain", h) \in Nat /\ After("drain", h) \in Nat
                           /\ Under("drain", h) = Before("drain", h) + Inside("drain", h) + After("drain", h)
        BY <1>1, UnderIs
      <3> QED BY <3>1, <3>2
    <2> QED BY <2>1, <2>2, <2>3
  <1> QED BY <1>2, <1>3, <1>4, <1>5, <1>12, <1>14, <1>15, <1>16 DEF Turns, Beginning

(* What a step of the driver does to a migration. *)
LEMMA DriverTurns ==
    ASSUME Controlled, Controlled', DriverStep
    PROVE  Turns /\ GPUsKept
  <1>1. CASE SendToGPUs \/ SendToMMU \/ ProcessOneCommand \/ \E g \in GPU : ProcessCommandReturn(g)
    BY <1>1, CallsTurn, DriverStepKeeps
  <1>2. CASE SendMigrationReqToCP
    BY <1>2, PageTurns, DriverStepKeeps DEF Turns
  <1>3. ASSUME NEW g \in GPU,
               \/ ProcessRDMADrainRsp(g)
               \/ ProcessShootdownCompleteRsp(g)
               \/ ProcessPageMigrationRspFromCP(g)
               \/ HandleGPURestartRsp(g)
               \/ ProcessRDMARestartRspToDriver(g)
        PROVE  Turns /\ GPUsKept
    BY <1>3, DrainTurns, ShootdownTurns, MigrateTurns, RestartTurns, RDMARestartTurns, DriverStepKeeps
  <1>4. CASE ParseFromMMU
    BY <1>4, MigrationTurns, DriverStepKeeps
  <1> QED BY <1>1, <1>2, <1>3, <1>4 DEF DriverStep

-----------------------------------------------------------------------------
(* What stops of a GPU, and when. *)

Stoppable == CU \cup AT \cup Cache \cup TLB \cup {"rdma"}

OthersRun == \A h \in GPU : paused[h] \subseteq Stoppable

(* The RDMA engine of a GPU, seen from its command processor. *)
RDMASame(h) ==
    /\ toPart'[h]["rdma"] = toPart[h]["rdma"] /\ fromPart'[h]["rdma"] = fromPart[h]["rdma"]
    /\ "rdma" \in paused'[h] <=> "rdma" \in paused[h]

RDMAStep(g) ==
    \/ ProcessRDMADrainCmd(g) \/ ProcessRDMARestartCommand(g) \/ ProcessRDMARsp(g)
    \/ RDMAPauses(g) \/ RDMADrained(g) \/ RDMARestarts(g)

(* A queue of a side of GPU g is that of the RDMA engine only if g's is.  *)
LEMMA OtherSide ==
    ASSUME CPTypeOK, paused' = paused, NEW g \in GPU, NEW p \in {"dma", "pmc"},
           \/ (\E k \in Control : SendTo(g, {p}, k)) /\ fromPart' = fromPart
           \/ Retrieve(g, p) /\ toPart' = toPart
           \/ Answers(g, p)
           \/ toPart' = toPart /\ fromPart' = [fromPart EXCEPT ![g][p] = Append(@, "copy")]
    PROVE  \A h \in GPU : RDMASame(h)
  <1>1. p \in Part /\ "rdma" \in Part /\ {p} \subseteq Part /\ "rdma" # p
    BY PartsApart
  <1>2. CASE (\E k \in Control : SendTo(g, {p}, k)) /\ fromPart' = fromPart
    <2>1. PICK k \in Control : SendTo(g, {p}, k)
      BY <1>2
    <2>2. \A h \in GPU, q \in Part :
            toPart'[h][q] = IF h = g /\ q \in {p} THEN Append(toPart[h][q], k) ELSE toPart[h][q]
      BY <1>1, <2>1 DEF SendTo, CPTypeOK
    <2>3. \A h \in GPU : toPart'[h]["rdma"] = toPart[h]["rdma"]
      BY <1>1, <2>2
    <2> QED BY <1>2, <2>3 DEF RDMASame
  <1>3. CASE Retrieve(g, p) /\ toPart' = toPart
    BY <1>1, <1>3, TakenFrom DEF RDMASame
  <1>4. CASE Answers(g, p)
    BY <1>1, <1>4, AnsweredBy DEF RDMASame
  <1>5. CASE toPart' = toPart /\ fromPart' = [fromPart EXCEPT ![g][p] = Append(@, "copy")]
    BY <1>1, <1>5 DEF RDMASame, CPTypeOK
  <1> QED BY <1>2, <1>3, <1>4, <1>5

(* A response of a group, and the requests it may lead to. *)
LEMMA GroupSide ==
    ASSUME CPTypeOK, paused' = paused, NEW g \in GPU, NEW X \in Groups, NEW p \in X, Retrieve(g, p),
           toPart' = toPart \/ \E Y \in Groups, k \in Control : SendTo(g, Y, k)
    PROVE  \A h \in GPU : RDMASame(h)
  <1>1. \A h \in GPU : fromPart'[h]["rdma"] = fromPart[h]["rdma"]
    BY SideTaken DEF Sides
  <1>2. \A h \in GPU : toPart'[h]["rdma"] = toPart[h]["rdma"]
    BY SideSent DEF Sides
  <1> QED BY <1>1, <1>2 DEF RDMASame

(* An answer of a part is an RDMA engine's, or leaves the RDMA engines alone. *)
LEMMA ResponsesSide ==
    ASSUME Typed, NEW g \in GPU, ProcessRspFromInternal(g)
    PROVE  RDMAStep(g) \/ \A h \in GPU : RDMASame(h)
  <1>1. CPTypeOK
    BY DEF Typed
  <1>2. CU \in Groups /\ AT \in Groups /\ Cache \in Groups /\ TLB \in Groups
        /\ "flush" \in Control /\ "reset" \in Control /\ "restart" \in Control
    BY DEF Groups, Control
  <1>3. paused' = paused
    BY DEF ProcessRspFromInternal, ProcessMemCopyRsp, ProcessRDMARsp, ProcessPageMigrationRsp,
           ProcessCUPipelineFlushRsp, ProcessCUPipelineRestartRsp, ProcessAddressTranslatorFlushRsp,
           ProcessAddressTranslatorRestartRsp, ProcessCacheFlushRsp, ProcessCacheRestartRsp,
           ProcessTLBFlushRsp, ProcessTLBRestartRsp, gpuVars
  <1>4. CASE ProcessMemCopyRsp(g)
    BY <1>1, <1>3, <1>4, OtherSide DEF ProcessMemCopyRsp
  <1>5. CASE ProcessRDMARsp(g)
    BY <1>5 DEF RDMAStep
  <1>6. CASE ProcessPageMigrationRsp(g)
    BY <1>1, <1>3, <1>6, OtherSide DEF ProcessPageMigrationRsp
  <1>7. ASSUME NEW c \in CU, ProcessCUPipelineFlushRsp(g, c) \/ ProcessCUPipelineRestartRsp(g, c)
        PROVE  \A h \in GPU : RDMASame(h)
    <2>1. Retrieve(g, c) /\ (toPart' = toPart \/ SendTo(g, AT, "flush"))
      BY <1>7 DEF ProcessCUPipelineFlushRsp, ProcessCUPipelineRestartRsp
    <2> QED BY <1>1, <1>2, <1>3, <2>1, GroupSide
  <1>8. ASSUME NEW a \in AT, ProcessAddressTranslatorFlushRsp(g, a) \/ ProcessAddressTranslatorRestartRsp(g, a)
        PROVE  \A h \in GPU : RDMASame(h)
    <2>1. Retrieve(g, a) /\ (toPart' = toPart \/ SendTo(g, Cache, "reset") \/ SendTo(g, CU, "restart"))
      BY <1>8 DEF ProcessAddressTranslatorFlushRsp, ProcessAddressTranslatorRestartRsp
    <2> QED BY <1>1, <1>2, <1>3, <2>1, GroupSide
  <1>9. ASSUME NEW c \in Cache, ProcessCacheFlushRsp(g, c) \/ ProcessCacheRestartRsp(g, c)
        PROVE  \A h \in GPU : RDMASame(h)
    <2>1. Retrieve(g, c) /\ (toPart' = toPart \/ SendTo(g, TLB, "flush") \/ SendTo(g, TLB, "restart"))
      BY <1>9 DEF ProcessCacheFlushRsp, ProcessCacheRestartRsp, CacheFlushCausedByTLBShootdown
    <2> QED BY <1>1, <1>2, <1>3, <2>1, GroupSide
  <1>10. ASSUME NEW t \in TLB, ProcessTLBFlushRsp(g, t) \/ ProcessTLBRestartRsp(g, t)
         PROVE  \A h \in GPU : RDMASame(h)
    <2>1. Retrieve(g, t) /\ (toPart' = toPart \/ SendTo(g, AT, "restart"))
      BY <1>10 DEF ProcessTLBFlushRsp, ProcessTLBRestartRsp
    <2> QED BY <1>1, <1>2, <1>3, <2>1, GroupSide
  <1> QED BY <1>4, <1>5, <1>6, <1>7, <1>8, <1>9, <1>10 DEF ProcessRspFromInternal

(* A command of the driver goes to the RDMA engine, or leaves the RDMA engines alone. *)
LEMMA RequestsSide ==
    ASSUME Typed, NEW g \in GPU, ProcessReqFromDriver(g)
    PROVE  RDMAStep(g) \/ \A h \in GPU : RDMASame(h)
  <1>1. CPTypeOK
    BY DEF Typed
  <1>2. CU \in Groups /\ Cache \in Groups
        /\ "flush" \in Control /\ "restart" \in Control /\ "copy" \in Control
    BY DEF Groups, Control
  <1>3. paused' = paused /\ fromPart' = fromPart
    BY DEF ProcessReqFromDriver, ProcessLaunchKernelReq, ProcessFlushCommand, ProcessMemCopyReq,
           ProcessRDMADrainCmd, ProcessRDMARestartCommand, ProcessShootdownCommand, ProcessGPURestartReq,
           ProcessPageMigrationReq, gpuVars
  <1>4. CASE toPart' = toPart
    BY <1>3, <1>4 DEF RDMASame
  <1>5. CASE SendTo(g, Cache, "flush") \/ SendTo(g, CU, "flush") \/ SendTo(g, Cache, "restart")
    <2>1. \A h \in GPU : toPart'[h]["rdma"] = toPart[h]["rdma"]
      BY <1>1, <1>2, <1>5, SideSent DEF Sides
    <2> QED BY <1>3, <2>1 DEF RDMASame
  <1>6. CASE SendTo(g, {"dma"}, "copy")
    BY <1>1, <1>2, <1>3, <1>6, OtherSide
  <1> QED BY <1>4, <1>5, <1>6 DEF RDMAStep, ProcessReqFromDriver, ProcessLaunchKernelReq, ProcessFlushCommand,
           ProcessMemCopyReq, ProcessShootdownCommand, ProcessGPURestartReq, ProcessPageMigrationReq

(* Only the parts of the groups and the RDMA engine stop, and only some    *)
(* steps are about the RDMA engine.                                        *)
LEMMA GPUStepSide ==
    ASSUME Typed, NEW g \in GPU, GPUStep(g)
    PROVE  /\ RDMAStep(g) \/ \A h \in GPU : RDMASame(h)
           /\ \A h \in GPU : paused'[h] \subseteq paused[h] \cup Stoppable
           /\ rdmaOut' = rdmaOut
  <1>1. CPTypeOK /\ paused \in [GPU -> SUBSET Part]
    BY DEF Typed, CPTypeOK
  <1>2. CASE PMCStep(g) /\ UNCHANGED <<cpVars, accessVars>>
    BY <1>2 DEF RDMASame, cpVars, portVars, gpuVars, accessVars
  <1>3. CASE ProcessReqFromDriver(g) /\ UNCHANGED accessVars
    <2>1. paused' = paused
      BY <1>3 DEF ProcessReqFromDriver, ProcessLaunchKernelReq, ProcessFlushCommand, ProcessMemCopyReq,
           ProcessRDMADrainCmd, ProcessRDMARestartCommand, ProcessShootdownCommand, ProcessGPURestartReq,
           ProcessPageMigrationReq, gpuVars
    <2> QED BY <1>3, <2>1, RequestsSide DEF accessVars
  <1>4. CASE ProcessRspFromInternal(g) /\ UNCHANGED accessVars
    <2>1. paused' = paused
      BY <1>4 DEF ProcessRspFromInternal, ProcessMemCopyRsp, ProcessRDMARsp, ProcessPageMigrationRsp,
           ProcessCUPipelineFlushRsp, ProcessCUPipelineRestartRsp, ProcessAddressTranslatorFlushRsp,
           ProcessAddressTranslatorRestartRsp, ProcessCacheFlushRsp, ProcessCacheRestartRsp,
           ProcessTLBFlushRsp, ProcessTLBRestartRsp, gpuVars
    <2> QED BY <1>4, <2>1, ResponsesSide DEF accessVars
  <1>5. CASE SendToPMC(g) /\ UNCHANGED accessVars
    BY <1>5 DEF SendToPMC, RDMASame, gpuVars, accessVars
  <1>6. CASE PMCAnswers(g) /\ UNCHANGED accessVars
    <2>1. paused' = paused /\ toPart' = toPart /\ fromPart' = [fromPart EXCEPT ![g]["pmc"] = Append(@, "copy")]
      BY <1>6 DEF PMCAnswers, gpuVars
    <2>2. \A h \in GPU : RDMASame(h)
      BY <1>1, <2>1, OtherSide
    <2> QED BY <1>6, <2>1, <2>2 DEF accessVars
  <1>7. CASE PartStep(g) /\ rdmaOut' = rdmaOut
    <2>1. PICK X \in Groups : \E p \in X : Handles(g, p)
      BY <1>7, PartHandles
    <2>2. PICK p \in X : Handles(g, p)
      BY <2>1
    <2>3. Answers(g, p) /\ p \in Stoppable /\ p # "rdma" /\ p \in Part
      BY <2>2, PartsApart DEF Handles, Stoppable, Groups
    <2>4. \A h \in GPU : toPart'[h]["rdma"] = toPart[h]["rdma"] /\ fromPart'[h]["rdma"] = fromPart[h]["rdma"]
      BY <1>1, <2>1, <2>3, SideAnswered DEF Sides
    <2>5. \A h \in GPU, q \in Part : q # p => (q \in paused'[h] <=> q \in paused[h])
      BY <2>2 DEF Handles
    <2>6. paused' \in [GPU -> SUBSET Part]
      BY <1>7, <1>1, PartsTyped DEF CPTypeOK
    <2>7. \A h \in GPU : paused'[h] \subseteq paused[h] \cup Stoppable
      BY <2>3, <2>5, <2>6
    <2>8. \A h \in GPU : "rdma" \in paused'[h] <=> "rdma" \in paused[h]
      BY <2>3, <2>5, PartsApart
    <2> QED BY <1>7, <2>4, <2>7, <2>8 DEF RDMASame
  <1>8. CASE RDMAPauses(g) \/ RDMADrained(g) \/ RDMARestarts(g)
    <2>1. \A h \in GPU : paused'[h] \subseteq paused[h] \cup Stoppable
      BY <1>1, <1>8 DEF RDMAPauses, RDMADrained, RDMARestarts, gpuVars, Stoppable
    <2>2. RDMAStep(g)
      BY <1>8 DEF RDMAStep
    <2>3. rdmaOut' = rdmaOut
      BY <1>8 DEF RDMAPauses, RDMADrained, RDMARestarts, accessVars
    <2> QED BY <2>1, <2>2, <2>3
  <1>9. CASE DMACopies(g)
    <2>1. paused' = paused /\ Answers(g, "dma") /\ rdmaOut' = rdmaOut
      BY <1>9 DEF DMACopies, gpuVars, accessVars
    <2>2. \A h \in GPU : RDMASame(h)
      BY <1>1, <2>1, OtherSide
    <2> QED BY <2>1, <2>2
  <1> QED BY <1>2, <1>3, <1>4, <1>5, <1>6, <1>7, <1>8, <1>9 DEF GPUStep, CPStep

(* The other steps stop nothing. *)
LEMMA PausedKept ==
    ASSUME Controlled, Controlled', [Next]_vars
    PROVE  \/ \E g \in GPU : GPUStep(g)
           \/ paused' = paused /\ toPart' = toPart /\ fromPart' = fromPart
  <1>1. CASE DriverStep
    BY <1>1, DriverTurns DEF GPUsKept
  <1>2. CASE \E g \in GPU : KernelEnds(g)
    BY <1>2 DEF KernelEnds, LocalWrite, RemoteRequest, RemoteWrite, KernelDone, cpVars, portVars, gpuVars
  <1>3. CASE Kernels
    BY <1>3 DEF Kernels, Translate, MMURequests, cpVars, portVars, gpuVars
  <1>4. CASE UNCHANGED vars
    BY <1>4 DEF vars, cpVars, portVars, gpuVars
  <1> QED BY <1>1, <1>2, <1>3, <1>4 DEF Next, System, Finished

(* GPUs that do not access the pages run on, step by step. *)
LEMMA StaysRunning ==
    ASSUME Controlled, Controlled', OthersRun, [Next]_vars
    PROVE  OthersRun'
  <1>1. CASE \E g \in GPU : GPUStep(g)
    <2>1. PICK g \in GPU : GPUStep(g)
      BY <1>1
    <2>2. \A h \in GPU : paused'[h] \subseteq paused[h] \cup Stoppable
      BY <2>1, GPUStepSide DEF Controlled
    <2> QED BY <2>2 DEF OthersRun, Stoppable
  <1>2. CASE paused' = paused
    BY <1>2 DEF OthersRun, Stoppable
  <1> QED BY <1>1, <1>2, PausedKept

(* A GPU some of whose compute units run. *)
LEMMA RunningServed ==
    Controlled /\ OthersRun => StoppedInOrder
  <1> SUFFICES ASSUME Controlled, OthersRun, NEW g \in GPU, ~(CU \subseteq paused[g])
               PROVE  paused[g] \subseteq CU \cup {"rdma"}
    BY DEF StoppedInOrder
  <1>1. PICK s \in Stage : GPUAt(g, s)
    BY DEF Controlled, Staged
  <1>2. GroupAt(g, CU, CUAt(s)) /\ GroupAt(g, AT, ATAt(s)) /\ GroupAt(g, Cache, CacheAt(s)) /\ GroupAt(g, TLB, TLBAt(s))
    BY <1>1 DEF GPUAt
  <1>3. CUAt(s) # "down"
    BY <1>2 DEF GroupAt, PartDown
  <1>4. s \in {"running", "stopCU", "startCU"}
    BY <1>3 DEF CUAt
  <1>5. ATAt(s) = "up" /\ CacheAt(s) = "up" /\ TLBAt(s) = "up"
    BY <1>4 DEF ATAt, CacheAt, TLBAt
  <1>6. \A p \in AT \cup Cache \cup TLB : p \notin paused[g]
    BY <1>2, <1>5 DEF GroupAt, PartUp
  <1>7. paused[g] \subseteq Stoppable
    BY DEF OthersRun
  <1> QED BY <1>6, <1>7 DEF Stoppable

(* A compute unit runs only while every other part of its GPU that serves  *)
(* it runs: the handlers of commandprocessor.go stop the compute units     *)
(* first and restart them last.                                            *)
THEOREM AlwaysStoppedInOrder == Spec => []StoppedInOrder
  <1>1. Init => OthersRun
    BY DEF Init, CPInit, OthersRun
  <1>2. Controlled /\ Controlled' /\ OthersRun /\ [Next]_vars => OthersRun'
    BY StaysRunning
  <1>3. Spec => []OthersRun
    BY <1>1, <1>2, DriverInvariant, PTL DEF Spec
  <1> QED BY <1>3, RunningServed, DriverInvariant, PTL

-----------------------------------------------------------------------------
(* The RDMA engines over a migration. *)

RdmaOff(g) ==
    \/ Phase = "drain" /\ Before("drain", g) = 0
    \/ Phase \in {"shootdown", "migrate", "gpuRestart"}
    \/ Phase = "rdmaRestart" /\ Before("rdmaRestart", g) = 1

Drain(g) == "rdma" \in paused[g] /\ rdmaOut[g] = NoAccess

(* The engine of GPU g waits for a command, stopped or not; has one; has   *)
(* answered one.                                                           *)
RdmaAt(g) ==
    \/ Quiet(g, "rdma") /\ RdmaOff(g) /\ Drain(g)
    \/ Quiet(g, "rdma") /\ ~RdmaOff(g) /\ "rdma" \notin paused[g]
    \/ Asked(g, "rdma", "flush")
    \/ Replied(g, "rdma", "flush") /\ Drain(g)
    \/ Asked(g, "rdma", "restart") /\ Drain(g)
    \/ Replied(g, "rdma", "restart") /\ "rdma" \notin paused[g]

RdmaMatch == \A g \in GPU : RdmaAt(g)

(* Commands that are not taken stay where they are. *)
LEMMA BeforeStill ==
    ASSUME Typed, NEW g \in GPU, Moves(g), NEW k \in Kinds, NEW h \in GPU,
           Inside(k, h)' # Inside(k, h) + 1
    PROVE  Before(k, h)' = Before(k, h)
  <1>1. Inside(k, h) \in Nat
    BY CountsTyped
  <1> QED BY <1>1 DEF Moves, Still, Begins, Ends, Same

(* What the command of an RDMA engine says of the counts. *)
LEMMA InPartIs ==
    ASSUME NEW g
    PROVE  /\ \A k : Asked(g, "rdma", k) \/ Replied(g, "rdma", k) => InPart(g, "rdma", k) = 1
           /\ \A k, l : k # l /\ (Asked(g, "rdma", k) \/ Replied(g, "rdma", k)) => InPart(g, "rdma", l) = 0
           /\ \A k : Quiet(g, "rdma") => InPart(g, "rdma", k) = 0
  <1>1. \A k, M : Number(<<k>>, M) = IF k \in M THEN 1 ELSE 0
    <2> SUFFICES ASSUME NEW k, NEW M PROVE Number(<<k>>, M) = IF k \in M THEN 1 ELSE 0
      OBVIOUS
    <2>1. PICK S : S = {k}
      OBVIOUS
    <2>2. PICK q \in Seq(S) : q = <<>>
      BY EmptySeq
    <2>3. k \in S
      BY <2>1
    <2>4. Number(Append(q, k), M) = Number(q, M) + IF k \in M THEN 1 ELSE 0
      BY <2>3, NumberAppend
    <2>5. Append(q, k) = <<k>> /\ Number(q, M) = 0
      BY <2>2, OneInQueue, NumberEmpty
    <2> QED BY <2>4, <2>5
  <1>2. \A k : Number(<<k>>, {k}) = 1
    BY <1>1
  <1>3. \A k, l : k # l => Number(<<k>>, {l}) = 0
    BY <1>1
  <1>4. ASSUME NEW k, Asked(g, "rdma", k) \/ Replied(g, "rdma", k) PROVE InPart(g, "rdma", k) = 1
    <2>1. Number(<<k>>, {k}) = 1 /\ Number(<<>>, {k}) = 0
      BY <1>2, NumberEmpty
    <2>2. InPart(g, "rdma", k) = Number(toPart[g]["rdma"], {k}) + Number(fromPart[g]["rdma"], {k})
      BY DEF InPart
    <2> QED BY <1>4, <2>1, <2>2 DEF Asked, Replied
  <1>5. ASSUME NEW k, NEW l, k # l, Asked(g, "rdma", k) \/ Replied(g, "rdma", k) PROVE InPart(g, "rdma", l) = 0
    <2>1. Number(<<k>>, {l}) = 0 /\ Number(<<>>, {l}) = 0
      BY <1>3, <1>5, NumberEmpty
    <2> QED BY <1>5, <2>1 DEF InPart, Asked, Replied
  <1>6. ASSUME NEW k, Quiet(g, "rdma") PROVE InPart(g, "rdma", k) = 0
    BY <1>6, NumberEmpty DEF InPart, Quiet
  <1> QED BY <1>4, <1>5, <1>6

(* The engine has at most one command, and the phase is that of its kind. *)
LEMMA RdmaPhase ==
    ASSUME Typed, Phased, NEW g \in GPU
    PROVE  /\ Asked(g, "rdma", "flush") \/ Replied(g, "rdma", "flush") => Phase = "drain" /\ Before("drain", g) = 0
           /\ Asked(g, "rdma", "restart") \/ Replied(g, "rdma", "restart") =>
                Phase = "rdmaRestart" /\ Before("rdmaRestart", g) = 0
  <1>1. "drain" \in Sweeps /\ "rdmaRestart" \in Sweeps /\ "drain" \in Kinds /\ "rdmaRestart" \in Kinds
    BY KindsAre
  <1>2. ASSUME Asked(g, "rdma", "flush") \/ Replied(g, "rdma", "flush") PROVE Phase = "drain" /\ Before("drain", g) = 0
    <2>1. Inside("drain", g) = 1
      <3>1. InPart(g, "rdma", "flush") = 1
        BY <1>2, InPartIs
      <3> QED BY <3>1, InsideIs
    <2>2. /\ Before("drain", g) \in Nat /\ After("drain", g) \in Nat
          /\ Under("drain", g) = Before("drain", g) + Inside("drain", g) + After("drain", g)
      BY <1>1, UnderIs
    <2>3. Phase = "drain" /\ Under("drain", g) = 1
      BY <1>1, <2>1, <2>2, DueIs
    <2> QED BY <2>1, <2>2, <2>3
  <1>3. ASSUME Asked(g, "rdma", "restart") \/ Replied(g, "rdma", "restart")
        PROVE  Phase = "rdmaRestart" /\ Before("rdmaRestart", g) = 0
    <2>1. Inside("rdmaRestart", g) = 1
      <3>1. InPart(g, "rdma", "restart") = 1
        BY <1>3, InPartIs
      <3> QED BY <3>1, InsideIs
    <2>2. /\ Before("rdmaRestart", g) \in Nat /\ After("rdmaRestart", g) \in Nat
          /\ Under("rdmaRestart", g) = Before("rdmaRestart", g) + Inside("rdmaRestart", g) + After("rdmaRestart", g)
      BY <1>1, UnderIs
    <2>3. Phase = "rdmaRestart" /\ Under("rdmaRestart", g) = 1
      BY <1>1, <2>1, <2>2, DueIs
    <2> QED BY <2>1, <2>2, <2>3
  <1> QED BY <1>2, <1>3

(* Nothing the invariant speaks of changes. *)
LEMMA RdmaKept ==
    ASSUME NEW h, RdmaAt(h), RDMASame(h), rdmaOut'[h] = rdmaOut[h] \/ (Drain(h) => Drain(h)'),
           RdmaOff(h)' = RdmaOff(h)
    PROVE  RdmaAt(h)'
  BY DEF RdmaAt, RDMASame, Quiet, Asked, Replied, Drain

(* The command processor takes the command to drain, or to restart. *)
LEMMA RdmaAsked ==
    ASSUME Controlled, RdmaMatch, NEW g \in GPU, driver' = driver, rdmaOut' = rdmaOut,
           ProcessRDMADrainCmd(g) \/ ProcessRDMARestartCommand(g)
    PROVE  RdmaAt(g)' /\ \A h \in GPU : h # g => RDMASame(h)
  <1>1. Typed /\ Staged /\ CPTypeOK /\ Phased
    BY DEF Controlled, Driven, Typed
  <1>2. "rdma" \in Sides /\ "drain" \in Kinds /\ "rdmaRestart" \in Kinds /\ "flush" \in Control /\ "restart" \in Control
        /\ "drain" \in Sweeps /\ "rdmaRestart" \in Sweeps /\ "rdma" \in Part
    BY KindsAre, PartsApart DEF Sides, Kinds, Control
  <1>3. fromPart' = fromPart /\ paused' = paused
    BY DEF ProcessRDMADrainCmd, ProcessRDMARestartCommand, gpuVars
  <1>4. CASE ProcessRDMADrainCmd(g)
    <2>1. /\ FromDriver(g, "drain") /\ RetrieveFromDriver(g) /\ SendTo(g, {"rdma"}, "flush")
          /\ UNCHANGED <<pmcVars, uplink, fromPart, toPMCSender, cp, gpuVars, driver>>
      BY <1>4 DEF ProcessRDMADrainCmd
    <2>2. Begins("drain", g)
      BY <1>1, <1>2, <2>1, SideBegins
    <2>3. /\ \A h \in GPU, q \in Part : h # g \/ q # "rdma" => toPart'[h][q] = toPart[h][q]
          /\ toPart'[g]["rdma"] = Append(toPart[g]["rdma"], "flush")
      BY <1>1, <1>2, <2>1, SideAsked
    <2>4. /\ Before("drain", g) \in Nat /\ Inside("drain", g) \in Nat /\ After("drain", g) \in Nat
          /\ Under("drain", g) = Before("drain", g) + Inside("drain", g) + After("drain", g)
          /\ Before("drain", g)' \in Nat
      <3>1. toDriver'[g] \in Seq(Command) /\ driver.requestsToSend \in Seq(Command)
        <4>1. toDriver[g] # <<>> /\ toDriver[g] \in Seq(Command) /\ toDriver'[g] = Tail(toDriver[g])
          BY <1>1, <2>1 DEF FromDriver, RetrieveFromDriver, CPTypeOK
        <4> QED BY <1>1, <4>1, TailAt, DriverIs
      <3>2. Before("drain", g)' \in Nat
        BY <3>1, NumberIn DEF Before
      <3> QED BY <1>1, <1>2, <3>2, UnderIs
    <2>5. Before("drain", g) # 0
      BY <2>2, <2>4 DEF Begins
    <2>6. Phase = "drain" /\ Under("drain", g) = 1
      BY <1>1, <1>2, <2>4, <2>5, DueIs
    <2>7. Quiet(g, "rdma") /\ ~RdmaOff(g) /\ "rdma" \notin paused[g]
      <3>1. ~RdmaOff(g)
        BY <2>5, <2>6 DEF RdmaOff
      <3>2. ~Asked(g, "rdma", "flush") /\ ~Replied(g, "rdma", "flush")
        BY <1>1, <2>5, RdmaPhase
      <3>3. ~Asked(g, "rdma", "restart") /\ ~Replied(g, "rdma", "restart")
        BY <1>1, <2>6, RdmaPhase
      <3> QED BY <3>1, <3>2, <3>3 DEF RdmaMatch, RdmaAt
    <2>8. Asked(g, "rdma", "flush")'
      BY <1>3, <2>3, <2>7, OneInQueue DEF Quiet, Asked
    <2>9. \A h \in GPU : h # g => RDMASame(h)
      BY <1>2, <1>3, <2>3 DEF RDMASame
    <2> QED BY <2>8, <2>9 DEF RdmaAt
  <1>5. CASE ProcessRDMARestartCommand(g)
    <2>1. /\ FromDriver(g, "rdmaRestart") /\ RetrieveFromDriver(g) /\ SendTo(g, {"rdma"}, "restart")
          /\ UNCHANGED <<pmcVars, uplink, fromPart, toPMCSender, cp, gpuVars, driver>>
      BY <1>5 DEF ProcessRDMARestartCommand
    <2>2. Begins("rdmaRestart", g)
      BY <1>1, <1>2, <2>1, SideBegins
    <2>3. /\ \A h \in GPU, q \in Part : h # g \/ q # "rdma" => toPart'[h][q] = toPart[h][q]
          /\ toPart'[g]["rdma"] = Append(toPart[g]["rdma"], "restart")
      BY <1>1, <1>2, <2>1, SideAsked
    <2>4. /\ Before("rdmaRestart", g) \in Nat /\ Inside("rdmaRestart", g) \in Nat /\ After("rdmaRestart", g) \in Nat
          /\ Under("rdmaRestart", g) = Before("rdmaRestart", g) + Inside("rdmaRestart", g) + After("rdmaRestart", g)
          /\ Before("rdmaRestart", g)' \in Nat
      <3>1. toDriver'[g] \in Seq(Command) /\ driver.requestsToSend \in Seq(Command)
        <4>1. toDriver[g] # <<>> /\ toDriver[g] \in Seq(Command) /\ toDriver'[g] = Tail(toDriver[g])
          BY <1>1, <2>1 DEF FromDriver, RetrieveFromDriver, CPTypeOK
        <4> QED BY <1>1, <4>1, TailAt, DriverIs
      <3>2. Before("rdmaRestart", g)' \in Nat
        BY <3>1, NumberIn DEF Before
      <3> QED BY <1>1, <1>2, <3>2, UnderIs
    <2>5. Before("rdmaRestart", g) # 0
      BY <2>2, <2>4 DEF Begins
    <2>6. Phase = "rdmaRestart" /\ Under("rdmaRestart", g) = 1
      BY <1>1, <1>2, <2>4, <2>5, DueIs
    <2>7. Quiet(g, "rdma") /\ Drain(g)
      <3>1. RdmaOff(g)
        <4>1. Before("rdmaRestart", g) = 1
          BY <2>4, <2>5, <2>6
        <4> QED BY <2>6, <4>1 DEF RdmaOff
      <3>2. ~Asked(g, "rdma", "flush") /\ ~Replied(g, "rdma", "flush")
        BY <1>1, <2>6, RdmaPhase
      <3>3. ~Asked(g, "rdma", "restart") /\ ~Replied(g, "rdma", "restart")
        BY <1>1, <2>5, RdmaPhase
      <3> QED BY <3>1, <3>2, <3>3 DEF RdmaMatch, RdmaAt
    <2>8. Asked(g, "rdma", "restart")' /\ Drain(g)'
      BY <1>3, <2>3, <2>7, OneInQueue DEF Quiet, Asked, Drain
    <2>9. \A h \in GPU : h # g => RDMASame(h)
      BY <1>2, <1>3, <2>3 DEF RDMASame
    <2> QED BY <2>8, <2>9 DEF RdmaAt
  <1> QED BY <1>4, <1>5

(* The command processor takes an answer of the engine. *)
LEMMA RdmaTaken ==
    ASSUME Controlled, RdmaMatch, NEW g \in GPU, Moves(g), driver' = driver, rdmaOut' = rdmaOut, ProcessRDMARsp(g)
    PROVE  RdmaAt(g)' /\ \A h \in GPU : h # g => RDMASame(h)
  <1>1. Typed /\ CPTypeOK /\ Phased
    BY DEF Controlled, Driven, Typed
  <1>2. "rdma" \in Sides /\ "rdma" \in Part /\ "drain" \in Kinds /\ "rdmaRestart" \in Kinds
    BY KindsAre, PartsApart DEF Sides, Kinds
  <1>3. PICK k \in {"flush", "restart"} : From(g, "rdma", k)
    BY DEF ProcessRDMARsp
  <1>4. Retrieve(g, "rdma") /\ toPart' = toPart /\ paused' = paused
    BY DEF ProcessRDMARsp, gpuVars
  <1>5. /\ \A h \in GPU, q \in Part : h # g \/ q # "rdma" => fromPart'[h][q] = fromPart[h][q]
        /\ fromPart'[g]["rdma"] = Tail(fromPart[g]["rdma"])
        /\ InPart(g, "rdma", k)' = InPart(g, "rdma", k) - 1
    BY <1>1, <1>2, <1>3, <1>4, SideTakes
  <1>6. Replied(g, "rdma", k)
    <2>1. fromPart[g]["rdma"] # <<>> /\ Head(fromPart[g]["rdma"]) = k
      BY <1>3 DEF From
    <2>2. Replied(g, "rdma", "flush") \/ Replied(g, "rdma", "restart")
      BY <2>1 DEF RdmaMatch, RdmaAt, Quiet, Asked
    <2>3. ASSUME NEW l, Replied(g, "rdma", l) PROVE l = k
      BY <2>1, <2>3, OneInQueue DEF Replied
    <2> QED BY <2>2, <2>3
  <1>7. Quiet(g, "rdma")'
    BY <1>4, <1>5, <1>6, OneInQueue DEF Replied, Quiet
  <1>8. Phase' = Phase
    BY DEF Phase, Handling
  <1>9. \A h \in GPU : h # g => RDMASame(h)
    BY <1>2, <1>4, <1>5 DEF RDMASame
  <1>10. InPart(g, "rdma", k) = 1
    BY <1>6, InPartIs
  <1>11. CASE k = "flush"
    <2>1. Phase = "drain" /\ Before("drain", g) = 0
      BY <1>1, <1>6, <1>11, RdmaPhase
    <2>2. Inside("drain", g)' # Inside("drain", g) + 1
      BY <1>5, <1>10, <1>11, InsideIs, InsideIsNext
    <2>3. Before("drain", g)' = 0
      BY <1>1, <1>2, <2>1, <2>2, BeforeStill
    <2>4. Drain(g)
      <3>1. "flush" # "restart" /\ ~Replied(g, "rdma", "restart")
        BY <1>6, <1>11, OneInQueue DEF Replied
      <3>2. ~Quiet(g, "rdma") /\ \A l : ~Asked(g, "rdma", l)
        BY <1>6, OneInQueue DEF Replied, Quiet, Asked
      <3> QED BY <3>1, <3>2 DEF RdmaMatch, RdmaAt
    <2> QED BY <1>4, <1>7, <1>8, <1>9, <2>1, <2>3, <2>4 DEF RdmaAt, RdmaOff, Drain
  <1>12. CASE k = "restart"
    <2>1. Phase = "rdmaRestart" /\ Before("rdmaRestart", g) = 0
      BY <1>1, <1>6, <1>12, RdmaPhase
    <2>2. Inside("rdmaRestart", g)' # Inside("rdmaRestart", g) + 1
      BY <1>5, <1>10, <1>12, InsideIs, InsideIsNext
    <2>3. Before("rdmaRestart", g)' = 0
      BY <1>1, <1>2, <2>1, <2>2, BeforeStill
    <2>4. "rdma" \notin paused[g]
      <3>1. "flush" # "restart" /\ ~Replied(g, "rdma", "flush")
        BY <1>6, <1>12, OneInQueue DEF Replied
      <3>2. ~Quiet(g, "rdma") /\ \A l : ~Asked(g, "rdma", l)
        BY <1>6, OneInQueue DEF Replied, Quiet, Asked
      <3> QED BY <3>1, <3>2 DEF RdmaMatch, RdmaAt
    <2> QED BY <1>4, <1>7, <1>8, <1>9, <2>1, <2>3, <2>4 DEF RdmaAt, RdmaOff
  <1> QED BY <1>3, <1>11, <1>12

-----------------------------------------------------------------------------
(* The steps of the RDMA engine itself. *)
LEMMA RdmaServes ==
    ASSUME Controlled, RdmaMatch, NEW g \in GPU, RDMAPauses(g) \/ RDMADrained(g) \/ RDMARestarts(g)
    PROVE  RdmaAt(g)' /\ \A h \in GPU : h # g => RDMASame(h)
  <1>1. Typed /\ CPTypeOK /\ Phased /\ "rdma" \in Part /\ paused \in [GPU -> SUBSET Part]
    BY PartsApart DEF Controlled, Driven, Typed, CPTypeOK
  <1>2. RdmaAt(g)
    BY DEF RdmaMatch
  <1>3. PICK k \in {"flush", "restart"} :
            /\ Asked(g, "rdma", k)
            /\ k = "restart" => Drain(g)
    <2>1. toPart[g]["rdma"] # <<>>
      BY DEF RDMAPauses, RDMADrained, RDMARestarts, HasRequest
    <2> QED BY <1>2, <2>1 DEF RdmaAt, Quiet, Replied
  <1>4. Head(toPart[g]["rdma"]) = k
    BY <1>3, OneInQueue DEF Asked
  <1>5. CASE RDMAPauses(g)
    <2>1. k = "flush" /\ toPart' = toPart /\ fromPart' = fromPart /\ paused' = [paused EXCEPT ![g] = @ \cup {"rdma"}]
      BY <1>4, <1>5 DEF RDMAPauses, HasRequest, portVars
    <2>2. \A h \in GPU : h # g => RDMASame(h)
      BY <1>1, <2>1 DEF RDMASame
    <2>3. Asked(g, "rdma", "flush")'
      BY <1>3, <2>1 DEF Asked
    <2> QED BY <2>2, <2>3 DEF RdmaAt
  <1>6. ASSUME Answers(g, "rdma")
        PROVE  /\ Replied(g, "rdma", k)'
               /\ \A h \in GPU : h # g => toPart'[h]["rdma"] = toPart[h]["rdma"] /\ fromPart'[h]["rdma"] = fromPart[h]["rdma"]
    <2>1. \A h \in GPU, q \in Part :
             /\ toPart'[h][q] = IF h = g /\ q = "rdma" THEN Tail(toPart[h][q]) ELSE toPart[h][q]
             /\ fromPart'[h][q] = IF h = g /\ q = "rdma" THEN Append(fromPart[h][q], Head(toPart[h][q]))
                                                          ELSE fromPart[h][q]
      BY <1>1, <1>6, AnsweredBy
    <2>2. toPart'[g]["rdma"] = Tail(<<k>>) /\ fromPart'[g]["rdma"] = Append(<<>>, k)
      BY <1>1, <1>3, <1>4, <2>1 DEF Asked
    <2> QED BY <1>1, <2>1, <2>2, OneInQueue DEF Replied
  <1>7. CASE RDMADrained(g)
    <2>1. k = "flush" /\ Answers(g, "rdma") /\ Drain(g) /\ paused' = paused /\ rdmaOut' = rdmaOut
      BY <1>4, <1>7 DEF RDMADrained, HasRequest, Drain, gpuVars, accessVars
    <2> QED BY <1>6, <2>1 DEF RdmaAt, Drain, RDMASame
  <1>8. CASE RDMARestarts(g)
    <2>1. k = "restart" /\ Answers(g, "rdma") /\ paused' = [paused EXCEPT ![g] = @ \ {"rdma"}]
      BY <1>4, <1>8 DEF RDMARestarts, HasRequest
    <2>2. "rdma" \notin paused'[g] /\ \A h \in GPU : h # g => paused'[h] = paused[h]
      BY <1>1, <2>1
    <2> QED BY <1>6, <2>1, <2>2 DEF RdmaAt, RDMASame
  <1> QED BY <1>5, <1>7, <1>8

(* No step of a GPU makes another one's engine wait for something else.    *)
LEMMA RdmaOffStill ==
    ASSUME Typed, NEW g \in GPU, Moves(g), driver' = driver, NEW h \in GPU, RDMASame(h)
    PROVE  RdmaOff(h)' = RdmaOff(h)
  <1>1. Inside("drain", h)' = Inside("drain", h) /\ Inside("rdmaRestart", h)' = Inside("rdmaRestart", h)
    BY InsideIs, InsideIsNext DEF RDMASame, InPart
  <1>2. "drain" \in Kinds /\ "rdmaRestart" \in Kinds
    BY DEF Kinds
  <1>3. Inside("drain", h) \in Nat /\ Inside("rdmaRestart", h) \in Nat
    BY <1>2, CountsTyped
  <1>4. Before("drain", h)' = Before("drain", h) /\ Before("rdmaRestart", h)' = Before("rdmaRestart", h)
    BY <1>1, <1>2, <1>3, BeforeStill
  <1>5. Phase' = Phase
    BY DEF Phase, Handling
  <1> QED BY <1>4, <1>5 DEF RdmaOff

(* A step of a GPU keeps the RDMA engines in agreement with the driver. *)
LEMMA GPUStepRdma ==
    ASSUME Controlled, RdmaMatch, NEW g \in GPU, GPUStep(g)
    PROVE  RdmaMatch'
  <1>1. Typed /\ Staged /\ Driven /\ Ordered /\ Answering
    BY DEF Controlled
  <1>2. Typed'
    BY <1>1, GPUStepTyped
  <1>3. Moves(g) /\ driver' = driver /\ rdmaOut' = rdmaOut
    BY <1>1, <1>2, GPUMoves, GPUStepSide DEF ComposedUnchanged
  <1>4. ASSUME NEW h \in GPU, RDMASame(h) PROVE RdmaAt(h)'
    <2>1. RdmaOff(h)' = RdmaOff(h)
      BY <1>1, <1>3, <1>4, RdmaOffStill
    <2> QED BY <1>3, <1>4, <2>1, RdmaKept DEF RdmaMatch
  <1>5. CASE RDMAStep(g)
    <2>1. RdmaAt(g)' /\ \A h \in GPU : h # g => RDMASame(h)
      BY <1>3, <1>5, RdmaAsked, RdmaTaken, RdmaServes DEF RDMAStep
    <2> QED BY <1>4, <2>1 DEF RdmaMatch
  <1>6. CASE \A h \in GPU : RDMASame(h)
    BY <1>4, <1>6 DEF RdmaMatch
  <1> QED BY <1>1, <1>5, <1>6, GPUStepSide

(* The kernels, and the MMU. *)
LEMMA KernelsRdma ==
    ASSUME Controlled, RdmaMatch, (\E g \in GPU : KernelEnds(g)) \/ Kernels \/ UNCHANGED vars
    PROVE  RdmaMatch'
  <1>1. /\ toPart' = toPart /\ fromPart' = fromPart /\ paused' = paused /\ driver' = driver /\ toDriver' = toDriver
        /\ pageTable' = pageTable
    BY DEF KernelEnds, LocalWrite, RemoteRequest, RemoteWrite, KernelDone, cpVars, portVars, gpuVars,
           Kernels, Translate, MMURequests, vars, tableVars
  <1>2. rdmaOut \in [GPU -> Access \cup {NoAccess}]
    BY DEF Controlled, Typed
  <1> SUFFICES ASSUME NEW h \in GPU PROVE RdmaAt(h)'
    BY DEF RdmaMatch
  <1>3. RDMASame(h)
    BY <1>1 DEF RDMASame
  <1>4. RdmaOff(h)' = RdmaOff(h)
    <2>1. \A k : Before(k, h)' = Before(k, h)
      BY <1>1, BeforeSame
    <2>2. Phase' = Phase
      BY <1>1 DEF Phase, Handling
    <2> QED BY <2>1, <2>2 DEF RdmaOff
  <1>5. rdmaOut'[h] = rdmaOut[h] \/ (Drain(h) => Drain(h)')
    <2>1. CASE rdmaOut' = rdmaOut
      BY <2>1
    <2>2. ASSUME NEW g \in GPU, RemoteRequest(g) PROVE rdmaOut'[h] = rdmaOut[h] \/ (Drain(h) => Drain(h)')
      <3>1. "rdma" \notin paused[g] /\ \A q \in GPU : q # g => rdmaOut'[q] = rdmaOut[q]
        BY <1>2, <2>2 DEF RemoteRequest
      <3> QED BY <3>1 DEF Drain
    <2>3. ASSUME NEW g \in GPU, RemoteWrite(g) PROVE rdmaOut'[h] = rdmaOut[h] \/ (Drain(h) => Drain(h)')
      <3>1. rdmaOut' = [rdmaOut EXCEPT ![g] = NoAccess]
        BY <2>3 DEF RemoteWrite
      <3>2. rdmaOut'[h] = NoAccess \/ rdmaOut'[h] = rdmaOut[h]
        BY <1>2, <3>1
      <3> QED BY <1>1, <3>2 DEF Drain
    <2> QED BY <2>1, <2>2, <2>3 DEF KernelEnds, LocalWrite, KernelDone, Kernels, Translate, MMURequests, vars, accessVars
  <1> QED BY <1>3, <1>4, <1>5, RdmaKept DEF RdmaMatch

(* A step of the driver: an engine is stopped for as long as before.       *)
LEMMA OrderedBefore ==
    ASSUME Typed, NEW s \in Seq(Command), Says(s), NEW k, \A i \in DOMAIN s : s[i].type # k
    PROVE  \A h \in GPU : Before(k, h)' = Before(k, h)
  <1> SUFFICES ASSUME NEW h \in GPU PROVE Before(k, h)' = Before(k, h)
    OBVIOUS
  <1>1. Before(k, h)' = Before(k, h) + Number(s, CommandFor(k, h))
    BY BeforeGrown DEF Says
  <1>2. \A i \in DOMAIN s : s[i] \notin CommandFor(k, h)
    BY DEF CommandFor
  <1>3. Number(s, CommandFor(k, h)) = 0
    BY <1>2, NumberIn
  <1>4. Before(k, h) \in Nat
    BY DriverIs, NumberIn DEF Before
  <1> QED BY <1>1, <1>3, <1>4

(* A step of the driver keeps the RDMA engines in agreement with it. *)
LEMMA DriverRdma ==
    ASSUME Controlled, Controlled', RdmaMatch, DriverStep
    PROVE  RdmaMatch'
  <1>1. Turns /\ GPUsKept /\ Typed
    BY DriverTurns DEF Controlled
  <1> SUFFICES ASSUME NEW h \in GPU PROVE RdmaAt(h)'
    BY DEF RdmaMatch
  <1>2. RDMASame(h) /\ rdmaOut'[h] = rdmaOut[h]
    BY <1>1 DEF RDMASame, GPUsKept, accessVars
  <1>3. "drain" \in Kinds /\ "rdmaRestart" \in Kinds
    BY DEF Kinds
  <1>4. RdmaOff(h)' = RdmaOff(h)
    <2>1. CASE Holding
      <3>1. Before("drain", h)' = Before("drain", h) /\ Before("rdmaRestart", h)' = Before("rdmaRestart", h)
        BY <2>1, BeforeSame DEF Holding
      <3> QED BY <2>1, <3>1 DEF Holding, RdmaOff
    <2>2. CASE Forwarding
      <3>1. Before("drain", h)' = Before("drain", h) /\ Before("rdmaRestart", h)' = Before("rdmaRestart", h)
        <4>1. PICK g \in GPU, c \in Command :
                /\ g = c.gpu /\ driver.requestsToSend # <<>> /\ c = Head(driver.requestsToSend)
                /\ driver'.requestsToSend = Tail(driver.requestsToSend)
                /\ toDriver' = [toDriver EXCEPT ![g] = Append(@, c)]
          BY <2>2 DEF Forwarding
        <4>2. \A k : \A i \in GPU : Before(k, i)' = Before(k, i)
          BY <1>1, <4>1, Forwarded
        <4> QED BY <4>2
      <3> QED BY <2>2, <3>1 DEF Forwarding, RdmaOff
    <2>3. CASE Ordering
      <3>1. PICK s \in Seq(Command) : Says(s) /\ \A i \in DOMAIN s : s[i].type \in {"launch", "flush", "copy"}
        BY <2>3 DEF Ordering
      <3>2. \A i \in DOMAIN s : s[i].type # "drain"
        BY <3>1
      <3>3. \A i \in DOMAIN s : s[i].type # "rdmaRestart"
        BY <3>1
      <3>4. Before("drain", h)' = Before("drain", h) /\ Before("rdmaRestart", h)' = Before("rdmaRestart", h)
        BY <1>1, <3>1, <3>2, <3>3, OrderedBefore
      <3> QED BY <2>3, <3>4 DEF Ordering, RdmaOff
    <2>4. CASE Loading \/ Landing \/ Shot \/ Moved
      BY <2>4 DEF Loading, Landing, Shot, Moved, RdmaOff
    <2>5. CASE Drained
      BY <2>5 DEF Drained, RdmaOff
    <2>6. CASE Restarted
      BY <2>6 DEF Restarted, RdmaOff
    <2>7. CASE Over
      BY <2>7 DEF Over, RdmaOff
    <2>8. CASE Beginning
      BY <2>8 DEF Beginning, RdmaOff
    <2> QED BY <1>1, <2>1, <2>2, <2>3, <2>4, <2>5, <2>6, <2>7, <2>8 DEF Turns
  <1> QED BY <1>2, <1>4, RdmaKept DEF RdmaMatch

(* Every step keeps the RDMA engines in agreement with the driver. *)
LEMMA StaysRdma ==
    ASSUME Controlled, Controlled', RdmaMatch, [Next]_vars
    PROVE  RdmaMatch'
  BY GPUStepRdma, KernelsRdma, DriverRdma DEF Next, System, Finished

(* All RDMA engines run in the initial states. *)
LEMMA StartsRdma ==
    ASSUME Init
    PROVE  RdmaMatch
  <1>1. Phase = "idle"
    BY PhaseIs DEF Init, Handling, PhaseFacts
  <1>2. \A g \in GPU : Quiet(g, "rdma") /\ "rdma" \notin paused[g]
    BY PartsApart DEF Init, CPInit, Quiet
  <1> QED BY <1>1, <1>2 DEF RdmaMatch, RdmaAt, RdmaOff

(* Outside a migration nothing is stopped. *)
LEMMA AllRun ==
    Controlled /\ OthersRun /\ RdmaMatch => RestartedAtEnd
  <1> SUFFICES ASSUME Controlled, OthersRun, RdmaMatch, ~driver.isCurrentlyHandlingMigrationReq, NEW g \in GPU
               PROVE  paused[g] = {}
    BY DEF RestartedAtEnd
  <1>1. Typed /\ Staged /\ Driven /\ Phased
    BY DEF Controlled, Driven
  <1>2. Phase = "idle"
    BY PhaseIs DEF PhaseFacts, Handling
  <1>3. "rdma" \notin paused[g]
    <2>1. ~RdmaOff(g)
      BY <1>2 DEF RdmaOff
    <2>2. ~Asked(g, "rdma", "flush") /\ ~Replied(g, "rdma", "flush")
          /\ ~Asked(g, "rdma", "restart") /\ ~Replied(g, "rdma", "restart")
      BY <1>1, <1>2, RdmaPhase
    <2> QED BY <2>1, <2>2 DEF RdmaMatch, RdmaAt
  <1>4. StageOf(g) \in Stage /\ GPUAt(g, StageOf(g))
    BY <1>1, StageOfIs
  <1>5. StageOf(g) \notin Stops /\ StageOf(g) \notin Starts /\ StageOf(g) # "stopped"
    BY <1>1, <1>2, StagePhase DEF Halted
  <1>6. StageOf(g) = "running"
    BY <1>4, <1>5 DEF Stage
  <1>7. GPUAt(g, "running")
    BY <1>4, <1>6
  <1>8. CUAt("running") = "up" /\ ATAt("running") = "up" /\ CacheAt("running") = "up" /\ TLBAt("running") = "up"
    BY DEF CUAt, ATAt, CacheAt, TLBAt
  <1>9. GroupAt(g, CU, "up") /\ GroupAt(g, AT, "up") /\ GroupAt(g, Cache, "up") /\ GroupAt(g, TLB, "up")
    BY <1>7, <1>8 DEF GPUAt
  <1>10. \A p \in CU \cup AT \cup Cache \cup TLB : p \notin paused[g]
    BY <1>9 DEF GroupAt, PartUp
  <1>11. paused[g] \subseteq Stoppable
    BY DEF OthersRun
  <1> QED BY <1>3, <1>10, <1>11 DEF Stoppable

(* Outside a migration everything runs: ProcessRDMARestartRspToDriver ends *)
(* a migration only when all it stopped has restarted, on every GPU.       *)
THEOREM AlwaysRestarted == Spec => []RestartedAtEnd
  <1>1. Init => OthersRun
    BY DEF Init, CPInit, OthersRun
  <1>2. Init => RdmaMatch
    BY StartsRdma
  <1>3. Controlled /\ Controlled' /\ OthersRun /\ [Next]_vars => OthersRun'
    BY StaysRunning
  <1>4. Controlled /\ Controlled' /\ RdmaMatch /\ [Next]_vars => RdmaMatch'
    BY StaysRdma
  <1>5. Spec => []OthersRun
    BY <1>1, <1>3, DriverInvariant, PTL DEF Spec
  <1>6. Spec => []RdmaMatch
    BY <1>2, <1>4, DriverInvariant, PTL DEF Spec
  <1> QED BY <1>5, <1>6, AllRun, DriverInvariant, PTL

-----------------------------------------------------------------------------
(* What the commands of a migration say.                                   *)

(* A command the driver has sent and no command processor has taken. *)
UnderWay(m) ==
    \/ \E i \in DOMAIN driver.requestsToSend : driver.requestsToSend[i] = m
    \/ \E h \in GPU : \E i \in DOMAIN toDriver[h] : toDriver[h][i] = m

(* A shootdown names the pages of the migration, to the command processor  *)
(* that works on it too.                                                   *)
ShotTold ==
    /\ \A m \in Command : UnderWay(m) /\ m.type = "shootdown" => m.pages = req.pages
    /\ \A h \in GPU : cp[h].shootDownInProcess => cp[h].currShootdownRequest = req.pages

Now == [page |-> OnePage, from |-> req.host]

(* The page under way is the one the driver waits for. *)
MoveTold ==
    /\ \A m \in Command : UnderWay(m) /\ m.type = "migrate" => m.page = OnePage /\ m.from = req.host
    /\ \A h \in GPU : \A i \in DOMAIN toPMCSender[h] : toPMCSender[h][i] = Now
    /\ \A h \in GPU : \A i \in DOMAIN ctrlPort[h] : ctrlPort[h][i] = Now

(* A shootdown under way belongs to its phase, a migration to its page. *)
LEMMA WayPhase ==
    ASSUME Typed, Driven, NEW m \in Command, UnderWay(m)
    PROVE  /\ m.type = "shootdown" => Phase = "shootdown"
           /\ m.type = "migrate" => OnePage # "nil"
  <1>1. m.type \in Kinds /\ m.gpu \in GPU
    BY DEF Command, Kinds
  <1>2. PICK h \in GPU : Before(m.type, h) # 0
    <2>1. CASE \E i \in DOMAIN driver.requestsToSend : driver.requestsToSend[i] = m
      <3>1. m \in CommandFor(m.type, m.gpu)
        BY DEF CommandFor
      <3>2. Number(driver.requestsToSend, CommandFor(m.type, m.gpu)) \in Nat \ {0}
        BY <2>1, <3>1, DriverIs, NumberIn
      <3>3. Number(toDriver[m.gpu], OfType(m.type)) \in Nat
        BY <1>1, DriverIs, NumberIn
      <3>4. Before(m.type, m.gpu) # 0
        BY <3>2, <3>3 DEF Before
      <3> QED BY <1>1, <3>4
    <2>2. ASSUME NEW h \in GPU, \E i \in DOMAIN toDriver[h] : toDriver[h][i] = m
          PROVE  \E g \in GPU : Before(m.type, g) # 0
      <3>1. m \in OfType(m.type)
        BY DEF OfType
      <3>2. Number(toDriver[h], OfType(m.type)) \in Nat \ {0}
        BY <2>2, <3>1, DriverIs, NumberIn
      <3>3. Number(driver.requestsToSend, CommandFor(m.type, h)) \in Nat
        BY DriverIs, NumberIn
      <3>4. Before(m.type, h) # 0
        BY <3>2, <3>3 DEF Before
      <3> QED BY <3>4
    <2> QED BY <2>1, <2>2 DEF UnderWay
  <1>3. Under(m.type, h) # 0
    <2>1. /\ Before(m.type, h) \in Nat /\ Inside(m.type, h) \in Nat /\ After(m.type, h) \in Nat
          /\ Under(m.type, h) = Before(m.type, h) + Inside(m.type, h) + After(m.type, h)
      BY <1>1, UnderIs
    <2> QED BY <1>2, <2>1
  <1>4. ASSUME m.type = "shootdown" PROVE Phase = "shootdown"
    BY <1>3, <1>4, DueIs, KindsAre DEF Driven
  <1>5. ASSUME m.type = "migrate" PROVE OnePage # "nil"
    BY <1>3, <1>5 DEF Driven, Paging, One
  <1> QED BY <1>4, <1>5

(* Outside their part of a migration there is nothing to say. *)
LEMMA NothingShot ==
    Controlled /\ Phase # "shootdown" => ShotTold
  <1> SUFFICES ASSUME Controlled, Phase # "shootdown" PROVE ShotTold
    OBVIOUS
  <1>1. Typed /\ Staged /\ Driven
    BY DEF Controlled
  <1>2. \A m \in Command : UnderWay(m) => m.type # "shootdown"
    BY <1>1, WayPhase
  <1>3. ASSUME NEW h \in GPU PROVE ~cp[h].shootDownInProcess
    <2>1. StageOf(h) \in Stage /\ GPUAt(h, StageOf(h))
      BY <1>1, StageOfIs
    <2>2. StageOf(h) \notin Stops
      BY <1>1, StagePhase
    <2> QED BY <2>1, <2>2 DEF GPUAt
  <1> QED BY <1>2, <1>3 DEF ShotTold

(* After a step that leaves no shootdown, nothing is to be told about one. *)
LEMMA NothingShotNext == (Controlled /\ Phase # "shootdown" => ShotTold)'
  BY NothingShot, PTL

(* Without a page on its way no GPU has a migration to do. *)
LEMMA NothingMoves ==
    Controlled /\ OnePage = "nil" =>
        /\ MoveTold
        /\ \A h \in GPU : toPMCSender[h] = <<>> /\ ctrlPort[h] = <<>> /\ ~isHandlingPageMigration[h]
                          /\ fromPart[h]["pmc"] = <<>> /\ After("migrate", h) = 0 /\ Inside("migrate", h) = 0
  <1> SUFFICES ASSUME Controlled, OnePage = "nil"
               PROVE  /\ MoveTold
                      /\ \A h \in GPU : toPMCSender[h] = <<>> /\ ctrlPort[h] = <<>> /\ ~isHandlingPageMigration[h]
                                        /\ fromPart[h]["pmc"] = <<>> /\ After("migrate", h) = 0 /\ Inside("migrate", h) = 0
    OBVIOUS
  <1>1. Typed /\ Driven /\ CPTypeOK
    BY DEF Controlled, Typed
  <1>2. \A m \in Command : UnderWay(m) => m.type # "migrate"
    BY <1>1, WayPhase
  <1>3. ASSUME NEW h \in GPU
        PROVE  toPMCSender[h] = <<>> /\ ctrlPort[h] = <<>> /\ ~isHandlingPageMigration[h]
               /\ fromPart[h]["pmc"] = <<>> /\ After("migrate", h) = 0 /\ Inside("migrate", h) = 0
    <2>1. Under("migrate", h) = 0
      BY <1>1 DEF Driven, Paging, One
    <2>2. /\ Before("migrate", h) \in Nat /\ Inside("migrate", h) \in Nat /\ After("migrate", h) \in Nat
          /\ Under("migrate", h) = Before("migrate", h) + Inside("migrate", h) + After("migrate", h)
      BY <1>1, UnderIs, KindsAre
    <2>3. Inside("migrate", h) = 0 /\ After("migrate", h) = 0
      BY <2>1, <2>2
    <2>4. Inside("migrate", h) = Len(toPMCSender[h]) + Len(ctrlPort[h]) + One(isHandlingPageMigration[h])
                                   + Len(fromPart[h]["pmc"])
      BY InsideIs
    <2>5. toPMCSender[h] \in Seq(Migration) /\ ctrlPort[h] \in Seq(Migration) /\ fromPart[h]["pmc"] \in Seq(Control)
      BY <1>1, PartsApart DEF CPTypeOK, Typed
    <2>6. Len(toPMCSender[h]) \in Nat /\ Len(ctrlPort[h]) \in Nat /\ Len(fromPart[h]["pmc"]) \in Nat
          /\ One(isHandlingPageMigration[h]) \in Nat
      BY <2>5, LenProperties DEF One
    <2>7. \A a, b, c, d \in Nat : a + b + c + d = 0 => a = 0 /\ b = 0 /\ c = 0 /\ d = 0
      OBVIOUS
    <2>8. Len(toPMCSender[h]) = 0 /\ Len(ctrlPort[h]) = 0 /\ Len(fromPart[h]["pmc"]) = 0
          /\ One(isHandlingPageMigration[h]) = 0
      <3>1. PICK a \in Nat : a = Len(toPMCSender[h])
        BY <2>6
      <3>2. PICK b \in Nat : b = Len(ctrlPort[h])
        BY <2>6
      <3>3. PICK c \in Nat : c = One(isHandlingPageMigration[h])
        BY <2>6
      <3>4. PICK d \in Nat : d = Len(fromPart[h]["pmc"])
        BY <2>6
      <3>5. a + b + c + d = 0
        BY <2>3, <2>4, <3>1, <3>2, <3>3, <3>4
      <3>6. a = 0 /\ b = 0 /\ c = 0 /\ d = 0
        BY <2>7, <3>5
      <3> QED BY <3>1, <3>2, <3>3, <3>4, <3>6
    <2>9. toPMCSender[h] = <<>> /\ ctrlPort[h] = <<>> /\ fromPart[h]["pmc"] = <<>>
      BY <2>5, <2>8, EmptySeq
    <2>10. ~isHandlingPageMigration[h]
      BY <2>8 DEF One
    <2> QED BY <2>3, <2>9, <2>10
  <1>4. \A h \in GPU : DOMAIN toPMCSender[h] = {} /\ DOMAIN ctrlPort[h] = {}
    BY <1>3
  <1> QED BY <1>2, <1>3, <1>4 DEF MoveTold

(* The same after a step. *)
LEMMA NothingMovesNext ==
   (Controlled /\ OnePage = "nil" =>
        /\ MoveTold
        /\ \A h \in GPU : toPMCSender[h] = <<>> /\ ctrlPort[h] = <<>> /\ ~isHandlingPageMigration[h]
                          /\ fromPart[h]["pmc"] = <<>> /\ After("migrate", h) = 0 /\ Inside("migrate", h) = 0)'
  BY NothingMoves, PTL

-----------------------------------------------------------------------------
(* A command is on its way until a command processor takes it. *)
LEMMA WayTaken ==
    ASSUME Typed, NEW g \in GPU, driver' = driver,
           toDriver' = toDriver \/ (toDriver[g] # <<>> /\ RetrieveFromDriver(g))
    PROVE  \A m \in Command : UnderWay(m)' => UnderWay(m)
  <1> SUFFICES ASSUME NEW m \in Command, UnderWay(m)' PROVE UnderWay(m)
    OBVIOUS
  <1>1. CASE \E i \in DOMAIN driver.requestsToSend : driver.requestsToSend[i] = m
    BY <1>1 DEF UnderWay
  <1>2. ASSUME NEW h \in GPU, NEW i \in DOMAIN toDriver'[h], toDriver'[h][i] = m
        PROVE  \E j \in DOMAIN toDriver[h] : toDriver[h][j] = m
    <2>1. CASE toDriver'[h] = toDriver[h]
      BY <1>2, <2>1
    <2>2. CASE toDriver'[h] # toDriver[h]
      <3>1. toDriver[h] \in Seq(Command) /\ toDriver[h] # <<>> /\ toDriver'[h] = Tail(toDriver[h])
        BY <2>2 DEF RetrieveFromDriver, Typed, CPTypeOK
      <3>2. i + 1 \in DOMAIN toDriver[h] /\ toDriver[h][i + 1] = m
        BY <1>2, <3>1, TailAt
      <3> QED BY <3>2
    <2> QED BY <2>1, <2>2
  <1> QED BY <1>1, <1>2 DEF UnderWay

(* The head of a GPU's queue is a command under way. *)
LEMMA WayHead ==
    ASSUME Typed, NEW g \in GPU, toDriver[g] # <<>>
    PROVE  Head(toDriver[g]) \in Command /\ UnderWay(Head(toDriver[g]))
  <1>1. toDriver[g] \in Seq(Command)
    BY DEF Typed, CPTypeOK
  <1>2. Head(toDriver[g]) \in Command /\ 1 \in DOMAIN toDriver[g] /\ toDriver[g][1] = Head(toDriver[g])
    BY <1>1, TailAt
  <1> QED BY <1>2 DEF UnderWay

(* Only the command that begins a shootdown says which pages it is about. *)
ShotKept(h) ==
    cp'[h].shootDownInProcess =>
        cp[h].shootDownInProcess /\ cp'[h].currShootdownRequest = cp[h].currShootdownRequest

(* An answer of a part keeps what a GPU was told to shoot down. *)
LEMMA ResponsesKeepShot ==
    ASSUME Typed, NEW g \in GPU, ProcessRspFromInternal(g)
    PROVE  \A h \in GPU : ShotKept(h)
  <1> SUFFICES ASSUME NEW h \in GPU PROVE ShotKept(h)
    OBVIOUS
  <1>1. cp \in [GPU -> CPState] /\ cp[g] \in CPState
    BY DEF Typed, CPTypeOK
  <1>2. CASE cp' = cp
    BY <1>2 DEF ShotKept
  <1>3. ASSUME NEW new, SetCP(g, new), new.currShootdownRequest = cp[g].currShootdownRequest,
               new.shootDownInProcess => cp[g].shootDownInProcess
        PROVE  ShotKept(h)
    <2>1. cp'[h] = IF h = g THEN new ELSE cp[h]
      BY <1>1, <1>3 DEF SetCP
    <2> QED BY <1>3, <2>1 DEF ShotKept
  <1>4. ASSUME NEW c \in CU, ProcessCUPipelineFlushRsp(g, c) PROVE ShotKept(h)
    BY <1>1, <1>3, <1>4 DEF ProcessCUPipelineFlushRsp, CPState
  <1>5. ASSUME NEW c \in CU, ProcessCUPipelineRestartRsp(g, c) PROVE ShotKept(h)
    BY <1>1, <1>3, <1>5 DEF ProcessCUPipelineRestartRsp, CPState
  <1>6. ASSUME NEW a \in AT, ProcessAddressTranslatorFlushRsp(g, a) PROVE ShotKept(h)
    BY <1>1, <1>3, <1>6 DEF ProcessAddressTranslatorFlushRsp, CPState
  <1>7. ASSUME NEW a \in AT, ProcessAddressTranslatorRestartRsp(g, a) PROVE ShotKept(h)
    BY <1>1, <1>3, <1>7 DEF ProcessAddressTranslatorRestartRsp, CPState
  <1>8. ASSUME NEW c \in Cache, ProcessCacheFlushRsp(g, c) PROVE ShotKept(h)
    BY <1>1, <1>3, <1>8 DEF ProcessCacheFlushRsp, CacheFlushCausedByTLBShootdown, CPState
  <1>9. ASSUME NEW c \in Cache, ProcessCacheRestartRsp(g, c) PROVE ShotKept(h)
    BY <1>1, <1>3, <1>9 DEF ProcessCacheRestartRsp, CPState
  <1>10. ASSUME NEW t \in TLB, ProcessTLBFlushRsp(g, t) PROVE ShotKept(h)
    BY <1>1, <1>3, <1>10 DEF ProcessTLBFlushRsp, CPState
  <1>11. ASSUME NEW t \in TLB, ProcessTLBRestartRsp(g, t) PROVE ShotKept(h)
    BY <1>1, <1>3, <1>11 DEF ProcessTLBRestartRsp, CPState
  <1> QED BY <1>2, <1>4, <1>5, <1>6, <1>7, <1>8, <1>9, <1>10, <1>11
          DEF ProcessRspFromInternal, ProcessMemCopyRsp, ProcessRDMARsp, ProcessPageMigrationRsp

(* A GPU changes what it is to shoot down only when a shootdown tells it to. *)
LEMMA GPUStepShot ==
    ASSUME Typed, NEW g \in GPU, GPUStep(g)
    PROVE  \A h \in GPU : ShotKept(h) \/ (h = g /\ FromDriver(g, "shootdown")
                                          /\ cp'[g].currShootdownRequest = Head(toDriver[g]).pages)
  <1> SUFFICES ASSUME NEW h \in GPU
               PROVE  ShotKept(h) \/ (h = g /\ FromDriver(g, "shootdown")
                                      /\ cp'[g].currShootdownRequest = Head(toDriver[g]).pages)
    OBVIOUS
  <1>1. cp \in [GPU -> CPState] /\ cp[g] \in CPState
    BY DEF Typed, CPTypeOK
  <1>2. CASE cp' = cp
    BY <1>2 DEF ShotKept
  <1>3. CASE ProcessRspFromInternal(g)
    BY <1>3, ResponsesKeepShot
  <1>4. ASSUME NEW new, SetCP(g, new), new.currShootdownRequest = cp[g].currShootdownRequest,
               new.shootDownInProcess => cp[g].shootDownInProcess
        PROVE  ShotKept(h)
    <2>1. cp'[h] = IF h = g THEN new ELSE cp[h]
      BY <1>1, <1>4 DEF SetCP
    <2> QED BY <1>4, <2>1 DEF ShotKept
  <1>5. CASE ProcessFlushCommand(g) \/ ProcessGPURestartReq(g)
    BY <1>1, <1>4, <1>5 DEF ProcessFlushCommand, ProcessGPURestartReq, CPState
  <1>6. CASE ProcessShootdownCommand(g)
    <2>1. PICK new : /\ new = [cp[g] EXCEPT !.shootDownInProcess = TRUE,
                                  !.currShootdownRequest = Head(toDriver[g]).pages,
                                  !.numCUAck = @ + Cardinality(CU)]
                     /\ SetCP(g, new)
      BY <1>6 DEF ProcessShootdownCommand
    <2>2. new.currShootdownRequest = Head(toDriver[g]).pages
      BY <1>1, <2>1 DEF CPState
    <2>3. cp'[h] = IF h = g THEN new ELSE cp[h]
      BY <1>1, <2>1 DEF SetCP
    <2>4. CASE h = g
      BY <1>6, <2>2, <2>3, <2>4 DEF ProcessShootdownCommand
    <2>5. CASE h # g
      BY <2>3, <2>5 DEF ShotKept
    <2> QED BY <2>4, <2>5
  <1>7. CASE ProcessReqFromDriver(g)
    BY <1>2, <1>5, <1>6, <1>7 DEF ProcessReqFromDriver, ProcessLaunchKernelReq, ProcessMemCopyReq,
       ProcessRDMADrainCmd, ProcessRDMARestartCommand, ProcessPageMigrationReq
  <1>8. CASE PartStep(g)
    BY <1>2, <1>8, PartHandles
  <1> QED BY <1>2, <1>3, <1>7, <1>8 DEF GPUStep, CPStep, SendToPMC, PMCAnswers, RDMAPauses, RDMADrained,
          RDMARestarts, DMACopies, cpVars

(* A step of a GPU keeps the pages of a shootdown. *)
LEMMA ShotGPU ==
    ASSUME Controlled, ShotTold, NEW g \in GPU, GPUStep(g)
    PROVE  ShotTold'
  <1>1. Typed /\ Staged /\ Driven /\ Ordered /\ Answering /\ Typed'
    BY GPUStepTyped DEF Controlled
  <1>2. /\ driver' = driver
        /\ toDriver' = toDriver \/ (toDriver[g] # <<>> /\ RetrieveFromDriver(g))
    BY <1>1, GPUMoves DEF ComposedUnchanged
  <1>3. req' = req
    BY <1>2 DEF req
  <1>4. \A m \in Command : UnderWay(m)' => UnderWay(m)
    BY <1>1, <1>2, WayTaken
  <1>5. ASSUME NEW h \in GPU, cp'[h].shootDownInProcess PROVE cp'[h].currShootdownRequest = req.pages
    <2>1. CASE ShotKept(h)
      BY <1>5, <2>1 DEF ShotKept, ShotTold
    <2>2. CASE h = g /\ FromDriver(g, "shootdown") /\ cp'[g].currShootdownRequest = Head(toDriver[g]).pages
      <3>1. toDriver[g] # <<>> /\ Head(toDriver[g]).type = "shootdown"
        BY <2>2 DEF FromDriver
      <3>2. Head(toDriver[g]) \in Command /\ UnderWay(Head(toDriver[g]))
        BY <1>1, <3>1, WayHead
      <3>3. Head(toDriver[g]).pages = req.pages
        BY <3>1, <3>2 DEF ShotTold
      <3> QED BY <2>2, <3>3
    <2> QED BY <1>1, <2>1, <2>2, GPUStepShot
  <1> QED BY <1>3, <1>4, <1>5 DEF ShotTold

-----------------------------------------------------------------------------
(* The page on its way to the page migration controller. *)
LEMMA GPUStepMove ==
    ASSUME Typed, NEW g \in GPU, GPUStep(g)
    PROVE  \/ toPMCSender' = toPMCSender /\ ctrlPort' = ctrlPort
           \/ /\ FromDriver(g, "migrate") /\ ctrlPort' = ctrlPort
              /\ toPMCSender' = [toPMCSender EXCEPT ![g] =
                    Append(@, [page |-> Head(toDriver[g]).page, from |-> Head(toDriver[g]).from])]
           \/ /\ toPMCSender[g] # <<>> /\ toPMCSender' = [toPMCSender EXCEPT ![g] = Tail(@)]
              /\ ctrlPort' = [ctrlPort EXCEPT ![g] = <<Head(toPMCSender[g])>>]
           \/ /\ ctrlPort[g] # <<>> /\ toPMCSender' = toPMCSender
              /\ ctrlPort' = [ctrlPort EXCEPT ![g] = Tail(@)]
  <1>1. CASE PMCStep(g) /\ UNCHANGED cpVars
    BY <1>1 DEF PMCStep, Deliver, MemServes, SendMigrationReqToAnotherPMC, SendDataReadyRspToRequestingPMC,
       SendReadReqLocalMemPort, SendWriteReqLocalMemPort, ProcessPageMigrationReqFromCtrlPort, HandleDataPullReq,
       HandleDataPullRsp, HandleDataReadyRspFromMemCtrl, HandleWriteDoneRspFromMemCtrl, migrationVars, cpVars, portVars
  <1>2. CASE ProcessReqFromDriver(g)
    BY <1>2 DEF ProcessReqFromDriver, ProcessLaunchKernelReq, ProcessFlushCommand, ProcessMemCopyReq,
       ProcessRDMADrainCmd, ProcessRDMARestartCommand, ProcessShootdownCommand, ProcessGPURestartReq,
       ProcessPageMigrationReq, pmcVars, migrationVars
  <1>3. CASE ProcessRspFromInternal(g)
    BY <1>3 DEF ProcessRspFromInternal, ProcessMemCopyRsp, ProcessRDMARsp, ProcessPageMigrationRsp,
           ProcessCUPipelineFlushRsp, ProcessCUPipelineRestartRsp, ProcessAddressTranslatorFlushRsp,
           ProcessAddressTranslatorRestartRsp, ProcessCacheFlushRsp, ProcessCacheRestartRsp,
           ProcessTLBFlushRsp, ProcessTLBRestartRsp, pmcVars, migrationVars
  <1>4. CASE SendToPMC(g) \/ PMCAnswers(g)
    BY <1>4 DEF SendToPMC, PMCAnswers, SendMigrationCompleteRspToCtrlPort
  <1>5. CASE PartStep(g)
    BY <1>5, PartHandles DEF migrationVars
  <1>6. CASE RDMAPauses(g) \/ RDMADrained(g) \/ RDMARestarts(g) \/ DMACopies(g)
    BY <1>6 DEF RDMAPauses, RDMADrained, RDMARestarts, DMACopies, pmcVars, migrationVars, portVars
  <1> QED BY <1>1, <1>2, <1>3, <1>4, <1>5, <1>6 DEF GPUStep, CPStep

(* A step of a GPU keeps the page of a migration. *)
LEMMA MoveGPU ==
    ASSUME Controlled, MoveTold, NEW g \in GPU, GPUStep(g)
    PROVE  MoveTold'
  <1>1. Typed /\ Staged /\ Driven /\ Ordered /\ Answering /\ Typed'
    BY GPUStepTyped DEF Controlled
  <1>2. /\ driver' = driver
        /\ toDriver' = toDriver \/ (toDriver[g] # <<>> /\ RetrieveFromDriver(g))
    BY <1>1, GPUMoves DEF ComposedUnchanged
  <1>3. req' = req /\ OnePage' = OnePage /\ Now' = Now
    BY <1>2 DEF req, OnePage, Now
  <1>4. \A m \in Command : UnderWay(m)' => UnderWay(m)
    BY <1>1, <1>2, WayTaken
  <1>5. PICK n : n = Now
    OBVIOUS
  <1>6. /\ toPMCSender \in [GPU -> Seq(Migration)] /\ ctrlPort \in [GPU -> Seq(Migration)]
        /\ \A h \in GPU : toPMCSender[h] \in Seq(Migration) /\ ctrlPort[h] \in Seq(Migration)
    BY <1>1 DEF Typed, CPTypeOK
  <1>7. /\ \A h \in GPU : \A i \in DOMAIN toPMCSender[h] : toPMCSender[h][i] = n
        /\ \A h \in GPU : \A i \in DOMAIN ctrlPort[h] : ctrlPort[h][i] = n
    BY <1>5 DEF MoveTold
  <1>8. CASE toPMCSender' = toPMCSender /\ ctrlPort' = ctrlPort
    BY <1>3, <1>4, <1>8 DEF MoveTold
  <1>9. CASE /\ FromDriver(g, "migrate") /\ ctrlPort' = ctrlPort
             /\ toPMCSender' = [toPMCSender EXCEPT ![g] =
                    Append(@, [page |-> Head(toDriver[g]).page, from |-> Head(toDriver[g]).from])]
    <2>1. toDriver[g] # <<>> /\ Head(toDriver[g]).type = "migrate"
      BY <1>9 DEF FromDriver
    <2>2. Head(toDriver[g]) \in Command /\ UnderWay(Head(toDriver[g]))
      BY <1>1, <2>1, WayHead
    <2>3. Head(toDriver[g]).page = OnePage /\ Head(toDriver[g]).from = req.host
      BY <2>1, <2>2 DEF MoveTold
    <2>4. toPMCSender' = [toPMCSender EXCEPT ![g] = Append(@, n)]
      BY <1>5, <1>9, <2>3 DEF Now
    <2>5. n \in Migration
      BY <2>1, <2>2, <2>3, <1>5 DEF Now, Command, Migration
    <2>6. ASSUME NEW h \in GPU, NEW i \in DOMAIN toPMCSender'[h] PROVE toPMCSender'[h][i] = n
      <3>1. CASE h # g
        BY <1>6, <1>7, <2>4, <2>6, <3>1
      <3>2. CASE h = g
        <4>1. PICK q \in Seq(Migration) : q = toPMCSender[g]
          BY <1>6
        <4>2. toPMCSender'[g] = Append(q, n)
          BY <1>6, <2>4, <4>1
        <4>3. i \in DOMAIN Append(q, n)
          BY <2>6, <3>2, <4>2
        <4>4. Append(q, n)[i] = n
          BY <1>7, <2>5, <4>1, <4>3, AppendAt
        <4> QED BY <3>2, <4>2, <4>4
      <3> QED BY <3>1, <3>2
    <2> QED BY <1>3, <1>4, <1>5, <1>9, <2>6 DEF MoveTold
  <1>10. CASE /\ toPMCSender[g] # <<>> /\ toPMCSender' = [toPMCSender EXCEPT ![g] = Tail(@)]
              /\ ctrlPort' = [ctrlPort EXCEPT ![g] = <<Head(toPMCSender[g])>>]
    <2>1. PICK q \in Seq(Migration) : q = toPMCSender[g]
      BY <1>6
    <2>2. q # <<>> /\ toPMCSender'[g] = Tail(q) /\ ctrlPort'[g] = <<Head(q)>>
      BY <1>6, <1>10, <2>1
    <2>3. Head(q) = n /\ \A i \in DOMAIN Tail(q) : Tail(q)[i] = n
      BY <1>7, <2>1, <2>2, TailAt
    <2>4. ASSUME NEW h \in GPU, NEW i \in DOMAIN toPMCSender'[h] PROVE toPMCSender'[h][i] = n
      BY <1>6, <1>7, <1>10, <2>2, <2>3, <2>4
    <2>5. ASSUME NEW h \in GPU, NEW i \in DOMAIN ctrlPort'[h] PROVE ctrlPort'[h][i] = n
      <3>1. CASE h # g
        BY <1>6, <1>7, <1>10, <2>5, <3>1
      <3>2. CASE h = g
        BY <2>2, <2>3, <2>5, <3>2
      <3> QED BY <3>1, <3>2
    <2> QED BY <1>3, <1>4, <1>5, <2>4, <2>5 DEF MoveTold
  <1>11. CASE /\ ctrlPort[g] # <<>> /\ toPMCSender' = toPMCSender
              /\ ctrlPort' = [ctrlPort EXCEPT ![g] = Tail(@)]
    <2>1. PICK q \in Seq(Migration) : q = ctrlPort[g]
      BY <1>6
    <2>2. q # <<>> /\ ctrlPort'[g] = Tail(q)
      BY <1>6, <1>11, <2>1
    <2>3. \A i \in DOMAIN Tail(q) : Tail(q)[i] = n
      BY <1>7, <2>1, <2>2, TailAt
    <2>4. ASSUME NEW h \in GPU, NEW i \in DOMAIN ctrlPort'[h] PROVE ctrlPort'[h][i] = n
      BY <1>6, <1>7, <1>11, <2>2, <2>3, <2>4
    <2> QED BY <1>3, <1>4, <1>5, <1>7, <1>11, <2>4 DEF MoveTold
  <1> QED BY <1>1, <1>8, <1>9, <1>10, <1>11, GPUStepMove

(* Commands the driver adds. *)
LEMMA WaySaid ==
    ASSUME Typed, NEW s \in Seq(Command), Says(s)
    PROVE  \A m \in Command : UnderWay(m)' => UnderWay(m) \/ \E i \in DOMAIN s : s[i] = m
  <1>1. PICK q \in Seq(Command) : q = driver.requestsToSend
    BY DriverIs
  <1>2. driver'.requestsToSend = q \o s /\ toDriver' = toDriver
    BY <1>1 DEF Says
  <1>3. ASSUME NEW m \in Command, NEW i \in DOMAIN (q \o s), (q \o s)[i] = m
        PROVE  (\E j \in DOMAIN q : q[j] = m) \/ \E j \in DOMAIN s : s[j] = m
    <2>1. CASE i \in DOMAIN q
      BY <1>3, <2>1, ConcatAt
    <2>2. CASE i \notin DOMAIN q
      <3>1. /\ Len(q) \in Nat /\ Len(s) \in Nat /\ DOMAIN q = 1..Len(q) /\ DOMAIN s = 1..Len(s)
            /\ DOMAIN (q \o s) = 1..(Len(q) + Len(s))
        BY ConcatAt
      <3>2. i - Len(q) \in DOMAIN s /\ Len(q) + (i - Len(q)) = i
        BY <1>3, <2>2, <3>1
      <3>3. (q \o s)[i] = s[i - Len(q)]
        BY <3>2, ConcatAt
      <3> QED BY <1>3, <3>2, <3>3
    <2> QED BY <2>1, <2>2
  <1> QED BY <1>1, <1>2, <1>3 DEF UnderWay

(* Forwarding a command puts no other one under way. *)
LEMMA WayForwarded ==
    ASSUME Typed, Forwarding
    PROVE  \A m \in Command : UnderWay(m)' => UnderWay(m)
  <1>1. PICK g \in GPU, c \in Command :
            /\ g = c.gpu /\ driver.requestsToSend # <<>> /\ c = Head(driver.requestsToSend)
            /\ driver'.requestsToSend = Tail(driver.requestsToSend)
            /\ toDriver' = [toDriver EXCEPT ![g] = Append(@, c)]
    BY DEF Forwarding
  <1>2. PICK q \in Seq(Command) : q = driver.requestsToSend
    BY DriverIs
  <1>3. q # <<>> /\ c = Head(q) /\ driver'.requestsToSend = Tail(q)
    BY <1>1, <1>2
  <1>4. 1 \in DOMAIN q /\ q[1] = c /\ \A i \in DOMAIN Tail(q) : i + 1 \in DOMAIN q /\ Tail(q)[i] = q[i + 1]
    BY <1>3, TailAt
  <1>5. ASSUME NEW m \in Command, NEW i \in DOMAIN Tail(q), Tail(q)[i] = m PROVE UnderWay(m)
    BY <1>2, <1>4, <1>5 DEF UnderWay
  <1>6. ASSUME NEW m \in Command, NEW h \in GPU, NEW i \in DOMAIN toDriver'[h], toDriver'[h][i] = m PROVE UnderWay(m)
    <2>1. CASE h # g
      <3>1. toDriver'[h] = toDriver[h]
        BY <1>1, <2>1 DEF Typed, CPTypeOK
      <3> QED BY <1>6, <3>1 DEF UnderWay
    <2>2. CASE h = g
      <3>1. PICK r \in Seq(Command) : r = toDriver[g]
        BY DriverIs
      <3>2. toDriver'[g] = Append(r, c)
        BY <1>1, <3>1 DEF Typed, CPTypeOK
      <3>3. i \in DOMAIN Append(r, c) /\ Append(r, c)[i] = m
        BY <1>6, <2>2, <3>2
      <3>4. (i \in DOMAIN r /\ r[i] = m) \/ m = c
        BY <3>3, AppendAt
      <3>5. CASE m = c
        BY <1>2, <1>4, <3>5 DEF UnderWay
      <3>6. CASE i \in DOMAIN r /\ r[i] = m
        BY <2>2, <3>1, <3>6 DEF UnderWay
      <3> QED BY <3>4, <3>5, <3>6
    <2> QED BY <2>1, <2>2
  <1> QED BY <1>3, <1>5, <1>6 DEF UnderWay

(* Loading a page puts only its command under way. *)
LEMMA WayLoaded ==
    ASSUME Typed, NEW c \in Command, NEW g \in GPU,
           driver'.requestsToSend = driver.requestsToSend, toDriver' = [toDriver EXCEPT ![g] = Append(@, c)]
    PROVE  \A m \in Command : UnderWay(m)' => UnderWay(m) \/ m = c
  <1>1. ASSUME NEW m \in Command, NEW h \in GPU, NEW i \in DOMAIN toDriver'[h], toDriver'[h][i] = m
        PROVE  UnderWay(m) \/ m = c
    <2>1. CASE h # g
      <3>1. toDriver'[h] = toDriver[h]
        BY <2>1 DEF Typed, CPTypeOK
      <3> QED BY <1>1, <3>1 DEF UnderWay
    <2>2. CASE h = g
      <3>1. PICK r \in Seq(Command) : r = toDriver[g]
        BY DriverIs
      <3>2. toDriver'[g] = Append(r, c)
        BY <3>1 DEF Typed, CPTypeOK
      <3>3. i \in DOMAIN Append(r, c) /\ Append(r, c)[i] = m
        BY <1>1, <2>2, <3>2
      <3>4. (i \in DOMAIN r /\ r[i] = m) \/ m = c
        BY <3>3, AppendAt
      <3> QED BY <2>2, <3>1, <3>4 DEF UnderWay
    <2> QED BY <2>1, <2>2
  <1> QED BY <1>1 DEF UnderWay

-----------------------------------------------------------------------------
(* A step of the driver keeps the pages of a shootdown. *)
LEMMA DriverShot ==
    ASSUME Controlled, Controlled', ShotTold, DriverStep
    PROVE  ShotTold'
  <1>1. Turns /\ GPUsKept /\ Typed
    BY DriverTurns DEF Controlled
  <1>2. CASE Phase' # "shootdown"
    BY <1>2, NothingShotNext
  <1>3. CASE Phase' = "shootdown"
    <2>1. req' = req
      BY <1>1, <1>3 DEF Turns, Holding, Forwarding, Ordering, Loading, Landing, Drained, Shot, Moved, Restarted,
         Over, Beginning, Keeps
    <2>2. ASSUME NEW m \in Command, UnderWay(m)', m.type = "shootdown" PROVE m.pages = req.pages
      <3>1. CASE Holding
        <4>1. UnderWay(m)
          BY <2>2, <3>1 DEF UnderWay, Holding
        <4> QED BY <2>2, <4>1 DEF ShotTold
      <3>2. CASE Forwarding
        <4>1. UnderWay(m)
          BY <1>1, <2>2, <3>2, WayForwarded
        <4> QED BY <2>2, <4>1 DEF ShotTold
      <3>3. CASE Ordering
        <4>1. PICK s \in Seq(Command) : Says(s) /\ \A i \in DOMAIN s : s[i].type \in {"launch", "flush", "copy"}
          BY <3>3 DEF Ordering
        <4>2. UnderWay(m)
          BY <1>1, <2>2, <4>1, WaySaid
        <4> QED BY <2>2, <4>2 DEF ShotTold
      <3>4. CASE Drained
        <4>1. PICK r \in PageMigrationReq : r = req
          <5>1. Phase = "drain"
            BY <3>4 DEF Drained
          <5>2. Handling
            BY <5>1, PhaseIs DEF PhaseFacts
          <5> QED BY <5>2 DEF Controlled, Driven, Phased, Legal
        <4>2. Shootdowns(r) \in Seq(Command)
              /\ \A i \in DOMAIN Shootdowns(r) : Shootdowns(r)[i].pages = r.pages
          BY ShootdownsIs
        <4>3. PICK s \in Seq(Command) : s = Shootdowns(r)
          BY <4>2
        <4>4. Says(s)
          BY <3>4, <4>1, <4>3 DEF Drained
        <4>5. UnderWay(m) \/ \E i \in DOMAIN s : s[i] = m
          BY <1>1, <2>2, <4>4, WaySaid
        <4>6. CASE UnderWay(m)
          BY <2>2, <4>6 DEF ShotTold
        <4>7. CASE \E i \in DOMAIN s : s[i] = m
          BY <4>1, <4>2, <4>3, <4>7
        <4> QED BY <4>5, <4>6, <4>7
      <3> QED BY <1>1, <1>3, <3>1, <3>2, <3>3, <3>4 DEF Turns, Loading, Landing, Shot, Moved, Restarted, Over, Beginning
    <2>3. cp' = cp
      BY <1>1 DEF GPUsKept
    <2> QED BY <2>1, <2>2, <2>3 DEF ShotTold
  <1> QED BY <1>2, <1>3

(* The command of the page that is loaded. *)
LEMMA LoadingIs ==
    ASSUME Controlled, Loading
    PROVE  /\ req \in PageMigrationReq /\ ToMove \in Seq(MoveMsg(req)) /\ ToMove # <<>>
           /\ Head(ToMove) \in Command /\ Head(ToMove).from = req.host /\ Head(ToMove).page \in req.pages
           /\ Head(ToMove).gpu = req.to /\ Head(ToMove).type = "migrate"
  <1>1. Phase = "migrate" /\ ToMove # <<>>
    BY DEF Loading
  <1>2. Handling
    BY <1>1, PhaseIs DEF PhaseFacts
  <1>3. PICK r \in PageMigrationReq : r = req
    BY <1>2 DEF Controlled, Driven, Phased, Legal
  <1>4. ToMove \in Seq(MoveMsg(r))
    BY <1>1, <1>3 DEF Controlled, Driven, Paging, MoveMsg
  <1>5. PICK q \in Seq(MoveMsg(r)) : q = ToMove
    BY <1>4
  <1>6. Head(q) \in MoveMsg(r) /\ MoveMsg(r) \subseteq Command
    BY <1>1, <1>5, HeadTailProperties, MigrationsIs
  <1>7. Head(q).from = r.host /\ Head(q).page \in r.pages /\ Head(q).gpu = r.to /\ Head(q).type = "migrate"
    BY <1>6 DEF MoveMsg
  <1>8. MoveMsg(req) = MoveMsg(r)
    BY <1>3 DEF MoveMsg
  <1> QED BY <1>1, <1>3, <1>4, <1>5, <1>6, <1>7, <1>8

(* Outside the phase of migration no page is on its way, also after a step. *)
LEMMA MoveIsNext == (Phase # "migrate" /\ Typed /\ Driven => OnePage = "nil")'
  <1>1. Phase # "migrate" /\ Typed /\ Driven => OnePage = "nil"
    BY MoveIs
  <1> QED BY <1>1, PTL

(* A step of the driver keeps the page of a migration. *)
LEMMA DriverMove ==
    ASSUME Controlled, Controlled', MoveTold, DriverStep
    PROVE  MoveTold'
  <1>1. Turns /\ GPUsKept /\ Typed
    BY DriverTurns DEF Controlled
  <1>2. CASE OnePage' = "nil"
    BY <1>2, NothingMovesNext
  <1>3. CASE OnePage' # "nil" /\ ~Loading
    <2>1. Phase' = "migrate"
      <3>1. Typed' /\ Driven'
        BY DEF Controlled
      <3> QED BY <1>3, <3>1, MoveIsNext
    <2>2. Holding \/ Forwarding \/ Ordering
      BY <1>1, <1>3, <2>1 DEF Turns, Landing, Drained, Shot, Moved, Restarted, Over, Beginning
    <2>3. req' = req /\ OnePage' = OnePage
      BY <2>2 DEF Holding, Forwarding, Ordering, Keeps
    <2>4. Now' = Now /\ toPMCSender' = toPMCSender /\ ctrlPort' = ctrlPort
      BY <1>1, <2>3 DEF Now, GPUsKept, pmcVars, migrationVars
    <2>5. ASSUME NEW m \in Command, UnderWay(m)', m.type = "migrate" PROVE UnderWay(m)
      <3>1. CASE Holding
        BY <2>5, <3>1 DEF UnderWay, Holding
      <3>2. CASE Forwarding
        BY <1>1, <2>5, <3>2, WayForwarded
      <3>3. CASE Ordering
        <4>1. PICK s \in Seq(Command) : Says(s) /\ \A i \in DOMAIN s : s[i].type \in {"launch", "flush", "copy"}
          BY <3>3 DEF Ordering
        <4> QED BY <1>1, <2>5, <4>1, WaySaid
      <3> QED BY <2>2, <3>1, <3>2, <3>3
    <2> QED BY <2>3, <2>4, <2>5 DEF MoveTold
  <1>4. CASE Loading
    <2>1. PICK r \in PageMigrationReq : r = req
      BY <1>4, LoadingIs
    <2>2. PICK c \in Command : c = Head(ToMove) /\ c.from = r.host /\ c.gpu = r.to
      BY <1>4, <2>1, LoadingIs
    <2>3. r.to \in GPU
      BY DEF PageMigrationReq
    <2>4. /\ req' = req /\ OnePage = "nil" /\ OnePage' = c.page
          /\ driver'.requestsToSend = driver.requestsToSend
          /\ toDriver' = [toDriver EXCEPT ![r.to] = Append(@, c)]
      BY <1>4, <2>1, <2>2 DEF Loading
    <2>5. \A m \in Command : UnderWay(m)' => UnderWay(m) \/ m = c
      BY <1>1, <2>3, <2>4, WayLoaded
    <2>6. \A m \in Command : UnderWay(m) => m.type # "migrate"
      BY <2>4, WayPhase DEF Controlled
    <2>7. \A h \in GPU : toPMCSender[h] = <<>> /\ ctrlPort[h] = <<>>
      BY <2>4, NothingMoves
    <2>8. toPMCSender' = toPMCSender /\ ctrlPort' = ctrlPort
      BY <1>1 DEF GPUsKept, pmcVars, migrationVars
    <2>9. \A h \in GPU : DOMAIN toPMCSender'[h] = {} /\ DOMAIN ctrlPort'[h] = {}
      BY <2>7, <2>8
    <2>10. ASSUME NEW m \in Command, UnderWay(m)', m.type = "migrate" PROVE m.page = OnePage' /\ m.from = req'.host
      BY <2>1, <2>2, <2>4, <2>5, <2>6, <2>10
    <2> QED BY <2>9, <2>10 DEF MoveTold
  <1> QED BY <1>2, <1>3, <1>4

Told == ShotTold /\ MoveTold

(* Kernels and translations change nothing of the commands. *)
LEMMA KernelsTold ==
    ASSUME Told, (\E g \in GPU : KernelEnds(g)) \/ Kernels \/ UNCHANGED vars
    PROVE  Told'
  <1>1. driver' = driver /\ toDriver' = toDriver /\ cp' = cp /\ toPMCSender' = toPMCSender /\ ctrlPort' = ctrlPort
    BY DEF KernelEnds, LocalWrite, RemoteRequest, RemoteWrite, KernelDone, cpVars, portVars,
           Kernels, Translate, MMURequests, vars, pmcVars, migrationVars
  <1>2. \A m \in Command : UnderWay(m)' => UnderWay(m)
    BY <1>1 DEF UnderWay
  <1>3. req' = req /\ OnePage' = OnePage /\ Now' = Now
    BY <1>1 DEF req, OnePage, Now
  <1>4. ShotTold'
    BY <1>1, <1>2, <1>3 DEF Told, ShotTold
  <1>5. MoveTold'
    BY <1>1, <1>2, <1>3 DEF Told, MoveTold
  <1> QED BY <1>4, <1>5 DEF Told

(* Every step keeps what the GPUs are told. *)
LEMMA StaysTold ==
    ASSUME Controlled, Controlled', Told, [Next]_vars
    PROVE  Told'
  <1>1. CASE DriverStep
    BY <1>1, DriverShot, DriverMove DEF Told
  <1>2. ASSUME NEW g \in GPU, GPUStep(g) PROVE Told'
    BY <1>2, ShotGPU, MoveGPU DEF Told
  <1>3. CASE (\E g \in GPU : KernelEnds(g)) \/ Kernels \/ UNCHANGED vars
    BY <1>3, KernelsTold
  <1> QED BY <1>1, <1>2, <1>3 DEF Next, System, Finished

(* Nothing has been told in the initial states. *)
LEMMA StartsTold ==
    ASSUME Init
    PROVE  Told
  <1>1. Controlled
    BY Starting
  <1>2. Phase = "idle"
    BY PhaseIs DEF Init, Handling, PhaseFacts
  <1>3. OnePage = "nil"
    BY <1>1, <1>2, MoveIs DEF Controlled
  <1> QED BY <1>1, <1>2, <1>3, NothingShot, NothingMoves DEF Told

-----------------------------------------------------------------------------
(* What can reach a page on its way. *)

(* The pages of a request stay where they are until the shootdown is over. *)
AtHost ==
    mmuWaits # NoReq /\ (toMMU # <<>> \/ Phase \in {"drain", "shootdown"}) =>
        \A p \in mmuWaits.pages : pageTable[p] = mmuWaits.host

(* L1 caches that stopped hold nothing, *)
Emptied == \A g \in GPU : L1 \subseteq paused[g] => inflight[g] = NoAccess

(* nor do registered TLBs that stopped hold pages their flush finds. *)
Down(g) == StageOf(g) \in Stops \/ Halted(g)
ShotDown ==
    \A g \in GPU, t \in TLB : Down(g) /\ t \in paused[g] =>
        \A p \in req.pages \cap FoundByFlush : tlb[g][t][p] = NoTranslation

InKernel == \A g \in GPU : inflight[g] # NoAccess \/ rdmaOut[g] # NoAccess => dispatching[g]

(* What the step of a GPU does to the accesses it holds. *)
Drops(h) ==
    /\ inflight'[h] = inflight[h] \/ inflight'[h] = NoAccess
    /\ L1 \subseteq paused'[h] => L1 \subseteq paused[h] \/ inflight'[h] = NoAccess
    /\ dispatching[h] => dispatching'[h]

(* Command processors and migration controllers touch no TLB, pause or dirty line. *)
LEMMA CPStepDrops ==
    ASSUME Typed, NEW g \in GPU, CPStep(g) \/ PMCAnswers(g) \/ (PMCStep(g) /\ UNCHANGED cpVars)
    PROVE  tlb' = tlb /\ paused' = paused /\ dirty' = dirty /\ \A h \in GPU : dispatching[h] => dispatching'[h]
  <1>1. dispatching \in [GPU -> BOOLEAN]
    BY DEF Typed, CPTypeOK
  <1>2. CASE PMCAnswers(g) \/ (PMCStep(g) /\ UNCHANGED cpVars)
    BY <1>2 DEF PMCAnswers, cpVars, gpuVars
  <1>3. CASE ProcessLaunchKernelReq(g)
    BY <1>1, <1>3 DEF ProcessLaunchKernelReq
  <1>4. CASE ProcessReqFromDriver(g) /\ ~ProcessLaunchKernelReq(g)
    BY <1>4 DEF ProcessReqFromDriver, ProcessFlushCommand, ProcessMemCopyReq,
           ProcessRDMADrainCmd, ProcessRDMARestartCommand, ProcessShootdownCommand, ProcessGPURestartReq,
           ProcessPageMigrationReq, gpuVars
  <1>5. CASE ProcessRspFromInternal(g)
    BY <1>5 DEF ProcessRspFromInternal, ProcessMemCopyRsp, ProcessRDMARsp, ProcessPageMigrationRsp,
           ProcessCUPipelineFlushRsp, ProcessCUPipelineRestartRsp, ProcessAddressTranslatorFlushRsp,
           ProcessAddressTranslatorRestartRsp, ProcessCacheFlushRsp, ProcessCacheRestartRsp,
           ProcessTLBFlushRsp, ProcessTLBRestartRsp, gpuVars
  <1>6. CASE SendToPMC(g)
    BY <1>6 DEF SendToPMC, gpuVars
  <1> QED BY <1>2, <1>3, <1>4, <1>5, <1>6 DEF CPStep

(* An engine beside the groups touches no TLB, no dirty line and no other pause. *)
LEMMA RDMAStepDrops ==
    ASSUME Typed, NEW g \in GPU, RDMAPauses(g) \/ RDMADrained(g) \/ RDMARestarts(g) \/ DMACopies(g)
    PROVE  /\ tlb' = tlb /\ dirty' = dirty /\ dispatching' = dispatching
           /\ \A h \in GPU : \A q : q # "rdma" => (q \in paused'[h] <=> q \in paused[h])
           /\ UNCHANGED accessVars /\ UNCHANGED pmcVars
  <1>1. paused \in [GPU -> SUBSET Part]
    BY DEF Typed, CPTypeOK
  <1>2. \A h \in GPU : \A q : q # "rdma" => (q \in paused'[h] <=> q \in paused[h])
    BY <1>1 DEF RDMAPauses, RDMADrained, RDMARestarts, DMACopies, gpuVars
  <1> QED BY <1>2 DEF RDMAPauses, RDMADrained, RDMARestarts, DMACopies, gpuVars

(* A part drops translations, and adds none. *)
LEMMA PartDrops ==
    ASSUME Typed, NEW g \in GPU, PartStep(g)
    PROVE  /\ \A h \in GPU : h # g => paused'[h] = paused[h] /\ tlb'[h] = tlb[h]
           /\ dispatching' = dispatching
           /\ \A h \in GPU : \A t \in TLB, p \in Page : tlb'[h][t][p] = tlb[h][t][p] \/ tlb'[h][t][p] = NoTranslation
  <1>1. /\ tlb \in [GPU -> [AnyTLB -> [Page -> Translation \cup {NoTranslation}]]] /\ paused \in [GPU -> SUBSET Part]
    BY DEF Typed, CPTypeOK
  <1>2. dispatching' = dispatching
    BY PartHandles
  <1>3. CASE (\E p \in CU \cup AT \cup L1 : StopsOrContinues(g, p)) \/ L2Flushes(g) \/ L2Restarts(g)
    <2>1. tlb' = tlb
      BY <1>3 DEF StopsOrContinues, L2Flushes, L2Restarts
    <2>2. \A h \in GPU : h # g => paused'[h] = paused[h]
      BY <1>1, <1>3 DEF StopsOrContinues, L2Flushes, L2Restarts
    <2> QED BY <1>2, <2>1, <2>2
  <1>4. ASSUME NEW t \in TLB, TLBHandles(g, t)
        PROVE  /\ \A h \in GPU : h # g => paused'[h] = paused[h] /\ tlb'[h] = tlb[h]
               /\ \A h \in GPU : \A u \in TLB, p \in Page : tlb'[h][u][p] = tlb[h][u][p] \/ tlb'[h][u][p] = NoTranslation
    <2>1. \A h \in GPU : h # g => paused'[h] = paused[h]
      BY <1>1, <1>4 DEF TLBHandles
    <2>2. CASE tlb' = tlb
      BY <2>1, <2>2
    <2>3. CASE tlb' = [tlb EXCEPT ![g][t] =
                    [p \in Page |-> IF p \in cp[g].currShootdownRequest \cap FoundByFlush THEN NoTranslation ELSE @[p]]]
      <3>1. t \in AnyTLB /\ \A u \in TLB : u \in AnyTLB
        BY DEF AnyTLB
      <3> QED BY <1>1, <2>1, <2>3, <3>1
    <2> QED BY <1>4, <2>2, <2>3 DEF TLBHandles
  <1> QED BY <1>2, <1>3, <1>4 DEF PartStep

(* A step of a GPU adds no translation and no access. *)
LEMMA GPUStepDrops ==
    ASSUME Typed, NEW g \in GPU, GPUStep(g)
    PROVE  rdmaOut' = rdmaOut /\ \A h \in GPU : Drops(h)
  <1>1. inflight \in [GPU -> Access \cup {NoAccess}]
    BY DEF Typed
  <1>2. CASE (CPStep(g) \/ PMCAnswers(g)) /\ UNCHANGED accessVars
    <2>1. tlb' = tlb /\ paused' = paused /\ \A h \in GPU : dispatching[h] => dispatching'[h]
      BY <1>2, CPStepDrops
    <2>2. inflight' = inflight /\ rdmaOut' = rdmaOut
      BY <1>2 DEF accessVars
    <2> QED BY <2>1, <2>2 DEF Drops
  <1>3. CASE RDMAPauses(g) \/ RDMADrained(g) \/ RDMARestarts(g) \/ DMACopies(g)
    <2>1. "rdma" \notin L1
      BY PartsApart
    <2>2. \A h \in GPU : L1 \subseteq paused'[h] => L1 \subseteq paused[h]
      BY <1>3, <2>1, RDMAStepDrops
    <2> QED BY <1>3, <2>2, RDMAStepDrops DEF Drops, accessVars
  <1>4. CASE PartStep(g) /\ rdmaOut' = rdmaOut
             /\ inflight' = (IF L1 \subseteq paused'[g] THEN [inflight EXCEPT ![g] = NoAccess] ELSE inflight)
    <2>1. \A h \in GPU : inflight'[h] = inflight[h] \/ inflight'[h] = NoAccess
      BY <1>1, <1>4
    <2>2. \A h \in GPU : L1 \subseteq paused'[h] => L1 \subseteq paused[h] \/ inflight'[h] = NoAccess
      BY <1>1, <1>4, PartDrops
    <2> QED BY <1>4, <2>1, <2>2, PartDrops DEF Drops
  <1>5. CASE PMCStep(g) /\ UNCHANGED <<cpVars, accessVars>>
    BY <1>5, CPStepDrops DEF Drops, accessVars
  <1>6. CASE /\ PartStep(g)
             /\ inflight' = IF L1 \subseteq paused'[g]
                       THEN [inflight EXCEPT ![g] = NoAccess] ELSE inflight
             /\ UNCHANGED <<rdmaOut, value, writes>>
    BY <1>4, <1>6
  <1> QED BY <1>2, <1>3, <1>5, <1>6 DEF GPUStep

-----------------------------------------------------------------------------
(* Kernels. *)

(* A kernel that goes on or ends begins no access. *)
LEMMA KernelUses ==
    ASSUME Typed, NEW g \in GPU, KernelEnds(g)
    PROVE  /\ tlb' = tlb /\ paused' = paused
           /\ \A h \in GPU : inflight'[h] = NoAccess \/ inflight'[h] = inflight[h]
           /\ \A h \in GPU : rdmaOut'[h] = NoAccess \/ rdmaOut'[h] = rdmaOut[h]
                               \/ (rdmaOut'[h] = inflight[h] /\ "rdma" \notin paused[h])
           /\ UNCHANGED <<driver, pageTable, mmuWaits, toMMU, cp, mem>>
  <1>1. inflight \in [GPU -> Access \cup {NoAccess}] /\ rdmaOut \in [GPU -> Access \cup {NoAccess}]
    BY DEF Typed
  <1>2. CASE LocalWrite(g)
    BY <1>1, <1>2 DEF LocalWrite, pmcVars, mmuVars, tableVars
  <1>3. CASE RemoteRequest(g)
    BY <1>1, <1>3 DEF RemoteRequest, pmcVars, mmuVars, tableVars, cpVars, gpuVars
  <1>4. CASE RemoteWrite(g)
    BY <1>1, <1>4 DEF RemoteWrite, pmcVars, mmuVars, tableVars
  <1>5. CASE KernelDone(g)
    BY <1>1, <1>5 DEF KernelDone, pmcVars, mmuVars, tableVars, accessVars
  <1> QED BY <1>2, <1>3, <1>4, <1>5 DEF KernelEnds

-----------------------------------------------------------------------------
(* The request the MMU waits for. *)

LEMMA WaitsChange ==
    ASSUME Controlled, [Next]_vars
    PROVE  \/ mmuWaits' = mmuWaits /\ toMMU' = toMMU
           \/ mmuWaits' = NoReq
           \/ mmuWaits' = mmuWaits /\ toMMU' = <<>> /\ DriverStep
           \/ \E g, host \in GPU, pages \in SUBSET Page : MMURequests(g, host, pages)
  <1>1. CASE DriverStep
    <2>1. CASE ParseFromMMU
      <3>1. toMMU' = <<>> /\ mmuWaits' = mmuWaits
        <4>1. toMMU # <<>> /\ toMMU' = Tail(toMMU) /\ mmuWaits' = mmuWaits
          BY <2>1 DEF ParseFromMMU
        <4>2. toMMU = <<mmuWaits>>
          BY <4>1 DEF Controlled, Driven, Asking
        <4> QED BY <4>1, <4>2, OneInQueue
      <3> QED BY <1>1, <3>1
    <2>2. CASE SendToMMU
      BY <2>2 DEF SendToMMU
    <2>3. CASE ~ParseFromMMU /\ ~SendToMMU
      BY <1>1, <2>3 DEF DriverStep, SendToGPUs, SendMigrationReqToCP, ToCPUnchanged, ProcessCommandReturn,
           ProcessRDMADrainRsp, ProcessShootdownCompleteRsp, ProcessPageMigrationRspFromCP, HandleGPURestartRsp,
           ProcessRDMARestartRspToDriver, ReturnUnchanged, ProcessOneCommand, mmuVars
    <2> QED BY <2>1, <2>2, <2>3
  <1>2. ASSUME NEW g \in GPU, GPUStep(g) PROVE mmuWaits' = mmuWaits /\ toMMU' = toMMU
    BY <1>2 DEF GPUStep, ComposedUnchanged, RDMAPauses, RDMADrained, RDMARestarts, DMACopies, mmuVars
  <1>3. ASSUME NEW g \in GPU, KernelEnds(g) PROVE mmuWaits' = mmuWaits /\ toMMU' = toMMU
    BY <1>3, KernelUses DEF Controlled
  <1>4. ASSUME NEW g \in GPU, NEW u \in UnregisteredTLB, NEW id \in PullID, Translate(g, u, id)
        PROVE  mmuWaits' = mmuWaits /\ toMMU' = toMMU
    BY <1>4 DEF Translate, mmuVars
  <1>5. CASE UNCHANGED vars
    BY <1>5 DEF vars, mmuVars
  <1> QED BY <1>1, <1>2, <1>3, <1>4, <1>5 DEF Next, System, Kernels, Finished

(* The MMU's request is for pages of one GPU. *)
LEMMA RequestIs ==
    ASSUME Typed, NEW g \in GPU, NEW host \in GPU, NEW pages \in SUBSET Page, MMURequests(g, host, pages)
    PROVE  /\ mmuWaits' # NoReq /\ mmuWaits'.pages = pages /\ mmuWaits'.host = host
           /\ \A p \in pages : pageTable[p] = host
           /\ pageTable' = pageTable
  <1>1. pageTable' = pageTable /\ pages # {} /\ \A p \in pages : pageTable[p] = host
    BY DEF MMURequests, tableVars
  <1>2. PICK others : mmuWaits' = [to |-> g, host |-> host, pages |-> pages, accessing |-> {g, host} \cup others]
    BY DEF MMURequests
  <1>3. mmuWaits'.pages = pages /\ mmuWaits'.host = host
    BY <1>2
  <1>4. NoReq.pages = {}
    BY DEF NoReq
  <1> QED BY <1>1, <1>3, <1>4

(* The pages of a request stay at their host until the page table changes. *)
LEMMA StaysAtHost ==
    ASSUME Controlled, Controlled', AtHost, [Next]_vars
    PROVE  AtHost'
  <1>1. CASE DriverStep /\ mmuWaits' = mmuWaits /\ (toMMU' = toMMU \/ toMMU' = <<>>)
    <2> SUFFICES ASSUME mmuWaits # NoReq, toMMU' # <<>> \/ Phase' \in {"drain", "shootdown"}
                 PROVE  \A p \in mmuWaits.pages : pageTable'[p] = mmuWaits.host
      BY <1>1 DEF AtHost
    <2>1. Turns
      BY <1>1, DriverTurns
    <2>2. Phase' # "migrate"
      BY DEF Controlled, Driven, Asking
    <2>3. pageTable' = pageTable
      BY <2>1, <2>2 DEF Turns, Keeps, Holding, Forwarding, Ordering, Loading, Landing, Drained, Shot, Moved,
           Restarted, Over, Beginning
    <2>4. toMMU # <<>> \/ Phase \in {"drain", "shootdown"}
      <3>1. CASE toMMU' # <<>>
        BY <1>1, <3>1
      <3>2. CASE Phase' \in {"drain", "shootdown"}
        BY <2>1, <3>2, OneInQueue DEF Turns, Keeps, Holding, Forwarding, Ordering, Loading, Landing, Drained, Shot, Moved,
           Restarted, Over, Beginning
      <3> QED BY <3>1, <3>2
    <2> QED BY <2>3, <2>4 DEF AtHost
  <1>2. CASE mmuWaits' = NoReq
    BY <1>2 DEF AtHost
  <1>3. ASSUME NEW g \in GPU, NEW host \in GPU, NEW pages \in SUBSET Page, MMURequests(g, host, pages)
        PROVE  AtHost'
    BY <1>3, RequestIs DEF Controlled, AtHost
  <1>4. CASE ~DriverStep /\ mmuWaits' = mmuWaits /\ toMMU' = toMMU
    <2>1. driver' = driver /\ pageTable' = pageTable
      <3>1. ASSUME NEW g \in GPU, GPUStep(g) PROVE driver' = driver /\ pageTable' = pageTable
        BY <3>1 DEF GPUStep, ComposedUnchanged, RDMAPauses, RDMADrained, RDMARestarts, DMACopies, tableVars
      <3>2. ASSUME NEW g \in GPU, KernelEnds(g) PROVE driver' = driver /\ pageTable' = pageTable
        BY <3>2, KernelUses DEF Controlled
      <3>3. CASE Kernels \/ UNCHANGED vars
        BY <3>3 DEF Kernels, Translate, MMURequests, vars, tableVars
      <3> QED BY <1>4, <3>1, <3>2, <3>3 DEF Next, System, Finished
    <2>2. Phase' = Phase
      BY <2>1 DEF Phase, Handling, Count
    <2> QED BY <1>4, <2>1, <2>2 DEF AtHost
  <1> QED BY <1>1, <1>2, <1>3, <1>4, WaitsChange

-----------------------------------------------------------------------------
(* What a GPU that stopped holds. *)

LEMMA StaysEmptied ==
    ASSUME Controlled, OthersRun, Emptied, [Next]_vars
    PROVE  Emptied'
  <1> SUFFICES ASSUME NEW h \in GPU, L1 \subseteq paused'[h] PROVE inflight'[h] = NoAccess
    BY DEF Emptied
  <1>1. inflight \in [GPU -> Access \cup {NoAccess}]
    BY DEF Controlled, Typed
  <1>2. CASE paused' = paused /\ (inflight'[h] = inflight[h] \/ inflight'[h] = NoAccess)
    BY <1>2 DEF Emptied
  <1>3. CASE DriverStep
    BY <1>2, <1>3, DriverStepKeeps DEF GPUsKept, accessVars
  <1>4. ASSUME NEW g \in GPU, GPUStep(g) PROVE inflight'[h] = NoAccess
    <2>1. Drops(h)
      BY <1>4, GPUStepDrops DEF Controlled
    <2> QED BY <2>1 DEF Drops, Emptied
  <1>5. ASSUME NEW g \in GPU, KernelEnds(g) PROVE inflight'[h] = NoAccess
    BY <1>2, <1>5, KernelUses DEF Controlled
  <1>6. ASSUME NEW g \in GPU, NEW u \in UnregisteredTLB, NEW id \in PullID, Translate(g, u, id)
        PROVE  inflight'[h] = NoAccess
    <2>1. PICK a : inflight' = [inflight EXCEPT ![g] = a]
      BY <1>6 DEF Translate
    <2>2. paused' = paused /\ ~(CU \subseteq paused[g])
      BY <1>6 DEF Translate, Running
    <2>3. paused[g] \subseteq CU \cup {"rdma"}
      BY <2>2, RunningServed DEF StoppedInOrder
    <2>4. ~(L1 \subseteq paused[g])
      BY <2>3, PartsApart
    <2> QED BY <1>1, <1>2, <2>1, <2>2, <2>4
  <1>7. CASE (\E g, host \in GPU, pages \in SUBSET Page : MMURequests(g, host, pages)) \/ UNCHANGED vars
    BY <1>2, <1>7 DEF MMURequests, vars, cpVars, gpuVars, accessVars
  <1> QED BY <1>3, <1>4, <1>5, <1>6, <1>7 DEF Next, System, Kernels, Finished

(* A migration stays within its kernel. *)
LEMMA StaysInKernel ==
    ASSUME Controlled, InKernel, [Next]_vars
    PROVE  InKernel'
  <1>1. /\ inflight \in [GPU -> Access \cup {NoAccess}] /\ rdmaOut \in [GPU -> Access \cup {NoAccess}]
        /\ dispatching \in [GPU -> BOOLEAN]
    BY DEF Controlled, Typed, CPTypeOK
  <1>2. CASE UNCHANGED <<inflight, rdmaOut, dispatching>>
    BY <1>2 DEF InKernel
  <1>3. CASE DriverStep
    BY <1>2, <1>3, DriverStepKeeps DEF GPUsKept, accessVars
  <1>4. ASSUME NEW g \in GPU, GPUStep(g) PROVE InKernel'
    BY <1>4, GPUStepDrops DEF Controlled, Drops, InKernel
  <1>5. ASSUME NEW g \in GPU, KernelEnds(g) PROVE InKernel'
    <2>1. CASE KernelDone(g)
      BY <1>1, <2>1 DEF KernelDone, InKernel, accessVars
    <2>2. CASE ~KernelDone(g)
      <3>1. dispatching' = dispatching
        BY <1>5, <2>2 DEF KernelEnds, LocalWrite, RemoteRequest, RemoteWrite, cpVars, gpuVars
      <3> QED BY <1>5, <3>1, KernelUses DEF Controlled, InKernel
    <2> QED BY <2>1, <2>2
  <1>6. ASSUME NEW g \in GPU, NEW u \in UnregisteredTLB, NEW id \in PullID, Translate(g, u, id)
        PROVE  InKernel'
    <2>1. PICK a : inflight' = [inflight EXCEPT ![g] = a]
      BY <1>6 DEF Translate
    <2>2. rdmaOut' = rdmaOut /\ dispatching' = dispatching /\ dispatching[g]
      BY <1>6 DEF Translate
    <2> QED BY <1>1, <2>1, <2>2 DEF InKernel
  <1>7. CASE (\E g, host \in GPU, pages \in SUBSET Page : MMURequests(g, host, pages)) \/ UNCHANGED vars
    BY <1>2, <1>7 DEF MMURequests, vars, cpVars, gpuVars, accessVars
  <1> QED BY <1>3, <1>4, <1>5, <1>6, <1>7 DEF Next, System, Kernels, Finished

(* A GPU that goes down had all its TLBs running. *)
LEMMA GoesDown ==
    ASSUME Controlled, Controlled', NEW g \in GPU, Moves(g), NEW h \in GPU, Down(h)', ~Down(h)
    PROVE  \A t \in TLB : t \notin paused[h]
  <1>1. Inside("shootdown", h) = 0 /\ ~Halted(h)
    BY InsideIs DEF Down, One
  <1>2. Inside("shootdown", h)' # 0 \/ Halted(h)'
    BY InsideIsNext DEF Down, One
  <1>3. Typed /\ Driven /\ Staged /\ Typed'
    BY DEF Controlled
  <1>4. Inside("shootdown", h)' \in Nat
    BY <1>3, KindsAre, CountsTypedNext
  <1>5. PICK k \in Kinds : Begins(k, g) \/ Ends(k, g)
    BY <1>1, <1>2, KindsAre DEF Moves, Still, Same
  <1>6. h = g /\ k = "shootdown"
    BY <1>1, <1>2, <1>5, KindsAre DEF Begins, Ends, Same
  <1>7. Begins("shootdown", g)
    <2>1. ASSUME Ends("shootdown", g) PROVE FALSE
      <3>1. Inside("shootdown", g)' = Inside("shootdown", g) - 1
        BY <2>1 DEF Ends
      <3>2. Inside("shootdown", g)' = 0 - 1
        BY <1>1, <1>6, <3>1
      <3>3. Inside("shootdown", g)' \in Nat
        BY <1>4, <1>6
      <3> QED BY <3>2, <3>3
    <2> QED BY <1>5, <1>6, <2>1
  <1>8. Before("shootdown", g) # 0
    <2>1. Before("shootdown", g)' \in Nat /\ Before("shootdown", g) \in Nat
      BY <1>3, KindsAre, CountsTypedNext, CountsTyped
    <2> QED BY <1>7, <2>1 DEF Begins
  <1>9. Under("shootdown", g) # 0
    <2>1. Before("shootdown", g) \in Nat /\ Inside("shootdown", g) \in Nat /\ After("shootdown", g) \in Nat
      BY <1>3, KindsAre, CountsTyped
    <2> QED BY <1>8, <2>1 DEF Under
  <1>10. Phase = "shootdown"
    BY <1>3, <1>9, DueIs, KindsAre DEF Driven
  <1>11. StageOf(h) = "running"
    BY <1>3, <1>10, StagePhase, StageOfIs DEF Down, Halted, Stage
  <1>12. GPUAt(h, "running")
    BY <1>3, <1>11, StageOfIs
  <1>13. GroupAt(h, TLB, "up")
    BY <1>12 DEF GPUAt, TLBAt
  <1> QED BY <1>13 DEF GroupAt, PartUp

(* A part keeps what has been shot down. *)
LEMMA PartShotDown ==
    ASSUME Controlled, Controlled', Told, ShotDown, NEW g \in GPU, GPUStep(g), PartStep(g)
    PROVE  ShotDown'
  <1>1. Typed /\ Staged /\ Driven /\ CPTypeOK /\ CPTypeOK'
    BY DEF Controlled, Typed
  <1>2. /\ tlb \in [GPU -> [AnyTLB -> [Page -> Translation \cup {NoTranslation}]]] /\ paused \in [GPU -> SUBSET Part]
    BY <1>1 DEF CPTypeOK
  <1>3. req' = req
    BY DEF GPUStep, ComposedUnchanged, RDMAPauses, RDMADrained, RDMARestarts, DMACopies, req
  <1>4. \A h \in GPU : h # g => GPUKept(h) /\ tlb'[h] = tlb[h]
    <2>1. PICK X \in Groups : \E p \in X : Handles(g, p)
      BY <1>1, PartHandles
    <2>2. PICK p \in X : Handles(g, p)
      BY <2>1
    <2>3. PICK s \in Stage : GPUAt(g, s)
      BY <1>1, StageOfIs
    <2>4. \A h \in GPU : h # g => GPUKept(h)
      BY <1>1, <2>1, <2>2, <2>3, HandlesAll
    <2> QED BY <1>1, <2>4, PartDrops
  <1>5. ASSUME NEW h \in GPU, h # g PROVE Down(h)' => Down(h)
    <2>1. GPUKept(h)
      BY <1>4, <1>5
    <2>2. StageOf(h)' = StageOf(h)
      BY <2>1, KeptGPU
    <2> QED BY <2>2 DEF Down, Halted
  <1>6. Moves(g)
    BY <1>1, GPUMoves DEF Controlled
  <1>7. ASSUME NEW t \in TLB, Down(g)', t \in paused'[g], NEW p \in req.pages \cap FoundByFlush, p \in Page
        PROVE  tlb'[g][t][p] = NoTranslation
    <2>1. CASE t \in paused[g]
      <3>1. Down(g)
        BY <1>6, <1>7, <2>1, GoesDown
      <3>2. tlb[g][t][p] = NoTranslation
        BY <2>1, <3>1 DEF ShotDown
      <3> QED BY <1>1, <1>7, <3>2, PartDrops
    <2>2. CASE t \notin paused[g]
      <3>1. TLBHandles(g, t) /\ Head(toPart[g][t]) = "flush" /\ HasRequest(g, t, {"flush", "restart"})
        <4>1. ASSUME NEW q \in CU \cup AT \cup L1, StopsOrContinues(g, q) PROVE FALSE
          BY <1>2, <1>7, <2>2, <4>1, PartsApart DEF StopsOrContinues
        <4>2. ASSUME L2Flushes(g) \/ L2Restarts(g) PROVE FALSE
          BY <1>2, <1>7, <2>2, <4>2, PartsApart DEF L2Flushes, L2Restarts
        <4>3. ASSUME NEW u \in TLB, TLBHandles(g, u) PROVE u = t /\ Head(toPart[g][t]) = "flush"
          BY <1>2, <1>7, <2>2, <4>3 DEF TLBHandles
        <4>4. PICK u \in TLB : TLBHandles(g, u)
          BY <4>1, <4>2 DEF PartStep
        <4> QED BY <4>3, <4>4 DEF TLBHandles
      <3>2. PICK s \in Stage : GPUAt(g, s)
        BY <1>1, StageOfIs
      <3>3. GroupAt(g, TLB, TLBAt(s)) /\ (cp[g].shootDownInProcess = (s \in Stops))
        BY <3>2 DEF GPUAt
      <3>4. toPart[g][t] # <<>> /\ Head(toPart[g][t]) # "restart" /\ t \notin Cache
        BY <3>1, PartsApart DEF HasRequest
      <3>5. TLBAt(s) = "stops"
        <4>1. TLBAt(s) \in Ways
          BY WaysAre
        <4>2. TLBAt(s) # "up"
          BY <3>3, <3>4 DEF GroupAt, PartUp, Quiet
        <4>3. TLBAt(s) # "down"
          BY <3>3, <3>4 DEF GroupAt, PartDown, Quiet
        <4>4. TLBAt(s) # "starts"
          BY <3>3, <3>4, OneInQueue DEF GroupAt, PartStarts, Quiet, Asked, Replied
        <4> QED BY <4>1, <4>2, <4>3, <4>4 DEF Ways
      <3>6. s \in Stops
        BY <3>5 DEF TLBAt, Stops
      <3>7. cp[g].currShootdownRequest = req.pages
        BY <3>3, <3>6 DEF Told, ShotTold
      <3>8. tlb' = [tlb EXCEPT ![g][t] =
                    [q \in Page |-> IF q \in cp[g].currShootdownRequest \cap FoundByFlush THEN NoTranslation ELSE @[q]]]
        BY <3>1 DEF TLBHandles
      <3>9. t \in AnyTLB
        BY DEF AnyTLB
      <3> QED BY <1>2, <1>7, <3>7, <3>8, <3>9
    <2> QED BY <2>1, <2>2
  <1>8. \A p \in req.pages : p \in Page
    BY <1>1, DriverIs DEF PageMigrationReq, NoReq
  <1>9. ASSUME NEW h \in GPU, NEW t \in TLB, Down(h)', t \in paused'[h],
               NEW p \in req.pages \cap FoundByFlush
        PROVE  tlb'[h][t][p] = NoTranslation
    <2>1. CASE h = g
      BY <1>7, <1>8, <1>9, <2>1
    <2>2. CASE h # g
      BY <1>4, <1>5, <1>9, <2>2 DEF GPUKept, ShotDown
    <2> QED BY <2>1, <2>2
  <1> QED BY <1>3, <1>9 DEF ShotDown

-----------------------------------------------------------------------------
(* Nobody reaches a page on its way. *)

LEMMA StaysShotDown ==
    ASSUME Controlled, Controlled', Told, ShotDown, [Next]_vars
    PROVE  ShotDown'
  <1>1. Typed /\ Driven
    BY DEF Controlled
  <1>2. /\ tlb \in [GPU -> [AnyTLB -> [Page -> Translation \cup {NoTranslation}]]] /\ paused \in [GPU -> SUBSET Part]
    BY <1>1 DEF Typed, CPTypeOK
  <1>3. ASSUME cp' = cp, paused' = paused PROVE \A h \in GPU : Down(h)' = Down(h)
    BY <1>3 DEF Down, Halted, StageOf
  <1>4. CASE cp' = cp /\ paused' = paused /\ tlb' = tlb /\ req' = req
    BY <1>3, <1>4 DEF ShotDown
  <1>5. CASE DriverStep
    <2>1. Turns /\ GPUsKept
      BY <1>5, DriverTurns
    <2>2. CASE req' = req
      BY <1>4, <2>1, <2>2 DEF GPUsKept
    <2>3. CASE Over
      <3>1. req'.pages = {}
        BY <2>3 DEF Over, NoReq
      <3> QED BY <3>1 DEF ShotDown
    <2>4. CASE Beginning
      <3>1. \A h \in GPU : ~Down(h)
        BY <1>1, <2>4, StagePhase DEF Beginning, Down
      <3>2. \A h \in GPU : ~Down(h)'
        BY <1>3, <2>1, <3>1 DEF GPUsKept
      <3> QED BY <3>2 DEF ShotDown
    <2> QED BY <2>1, <2>2, <2>3, <2>4 DEF Turns, Keeps, Holding, Forwarding, Ordering, Loading, Landing, Drained, Shot,
           Moved, Restarted, Over, Beginning
  <1>6. ASSUME NEW g \in GPU, GPUStep(g) PROVE ShotDown'
    <2>1. CASE PartStep(g)
      BY <1>6, <2>1, PartShotDown
    <2>2. CASE ~PartStep(g)
      <3>1. tlb' = tlb /\ \A h \in GPU : \A q : q # "rdma" => (q \in paused'[h] <=> q \in paused[h])
        <4>1. CASE RDMAPauses(g) \/ RDMADrained(g) \/ RDMARestarts(g) \/ DMACopies(g)
          BY <1>1, <4>1, RDMAStepDrops
        <4>2. CASE CPStep(g) \/ PMCAnswers(g) \/ (PMCStep(g) /\ UNCHANGED cpVars)
          BY <1>1, <4>2, CPStepDrops
        <4> QED BY <1>6, <2>2, <4>1, <4>2 DEF GPUStep
      <3>2. Moves(g) /\ req' = req
        BY <1>6, GPUMoves DEF Controlled, ComposedUnchanged, req
      <3>3. ASSUME NEW h \in GPU, NEW t \in TLB, Down(h)', t \in paused'[h]
            PROVE  Down(h) /\ t \in paused[h]
        <4>1. t \in paused[h]
          BY <3>1, <3>3, PartsApart
        <4> QED BY <3>2, <3>3, <4>1, GoesDown
      <3> QED BY <3>1, <3>2, <3>3 DEF ShotDown
    <2> QED BY <2>1, <2>2
  <1>7. ASSUME NEW g \in GPU, KernelEnds(g) PROVE ShotDown'
    BY <1>1, <1>4, <1>7, KernelUses DEF req
  <1>8. ASSUME NEW g \in GPU, NEW u \in UnregisteredTLB, NEW id \in PullID, Translate(g, u, id)
        PROVE  ShotDown'
    <2>1. cp' = cp /\ paused' = paused /\ driver' = driver
      BY <1>8 DEF Translate
    <2>2. PICK tr : TLBHit(g, u, id[1], tr) \/ TLBMiss(g, u, id[1], tr)
      BY <1>8 DEF Translate
    <2>3. ASSUME NEW h \in GPU, NEW t \in TLB, t \in paused[h] PROVE tlb'[h][t] = tlb[h][t]
      <3>1. CASE TLBHit(g, u, id[1], tr)
        BY <3>1 DEF TLBHit
      <3>2. CASE TLBMiss(g, u, id[1], tr)
        <4>1. PICK x \in TLB :
                /\ x \notin paused[g]
                /\ tlb' = [tlb EXCEPT ![g][u][id[1]] = tr, ![g][x][id[1]] = tr]
          BY <3>2 DEF TLBMiss
        <4>2. t # u /\ (h = g => t # x)
          BY <2>3, <4>1, CPAssumption
        <4>3. t \in AnyTLB /\ u \in AnyTLB /\ x \in AnyTLB
          BY DEF AnyTLB
        <4> QED BY <1>2, <4>1, <4>2, <4>3
      <3> QED BY <2>2, <3>1, <3>2
    <2> QED BY <1>3, <2>1, <2>3 DEF ShotDown, req
  <1>9. CASE (\E g, host \in GPU, pages \in SUBSET Page : MMURequests(g, host, pages)) \/ UNCHANGED vars
    BY <1>4, <1>9 DEF MMURequests, vars, cpVars, gpuVars, req
  <1> QED BY <1>5, <1>6, <1>7, <1>8, <1>9 DEF Next, System, Kernels, Finished

Apart == AtHost /\ Emptied /\ ShotDown /\ InKernel

(* The initial states keep kernels apart from pages on their way. *)
LEMMA StartsApart ==
    ASSUME Init
    PROVE  Apart
  <1>1. mmuWaits = NoReq /\ driver.currentPageMigrationReq.pages = {}
    BY DEF Init, NoReq
  <1>2. \A h \in GPU : inflight[h] = NoAccess /\ rdmaOut[h] = NoAccess /\ paused[h] = {}
    BY DEF Init, CPInit
  <1> QED BY <1>1, <1>2 DEF Apart, AtHost, Emptied, ShotDown, InKernel, req

(* The GPUs of a migration have stopped and the RDMA engines are drained. *)
LEMMA Isolated ==
    ASSUME Controlled, Apart, RdmaMatch, Phase \in {"shootdown", "migrate"}, \A g \in req.accessing : Halted(g)
    PROVE  /\ \A g \in GPU : "rdma" \in paused[g] /\ rdmaOut[g] = NoAccess
           /\ \A g \in req.accessing :
                /\ g \in GPU /\ CU \cup AT \cup Cache \cup TLB \subseteq paused[g]
                /\ inflight[g] = NoAccess
                /\ \A t \in TLB, p \in req.pages \cap FoundByFlush : tlb[g][t][p] = NoTranslation
  <1>1. Typed /\ Driven /\ Staged /\ Phased
    BY DEF Controlled, Driven
  <1>2. ASSUME NEW g \in GPU PROVE "rdma" \in paused[g] /\ rdmaOut[g] = NoAccess
    <2>1. RdmaAt(g) /\ RdmaOff(g)
      BY DEF RdmaMatch, RdmaOff
    <2>2. ~Asked(g, "rdma", "flush") /\ ~Replied(g, "rdma", "flush") /\ ~Asked(g, "rdma", "restart")
          /\ ~Replied(g, "rdma", "restart")
      BY <1>1, RdmaPhase
    <2> QED BY <2>1, <2>2 DEF RdmaAt, Drain
  <1>3. req = mmuWaits /\ mmuWaits # NoReq /\ Legal(mmuWaits)
    BY <1>1, PhaseAsks DEF Driven, Asking
  <1>4. ASSUME NEW g \in req.accessing
        PROVE  g \in GPU /\ CU \cup AT \cup Cache \cup TLB \subseteq paused[g]
    <2>1. g \in GPU
      BY <1>3 DEF Legal, PageMigrationReq
    <2>2. GPUAt(g, "stopped")
      BY <1>1, <2>1, StageOfIs DEF Halted
    <2>3. GroupAt(g, CU, "down") /\ GroupAt(g, AT, "down") /\ GroupAt(g, Cache, "down") /\ GroupAt(g, TLB, "down")
      BY <2>2 DEF GPUAt, CUAt, ATAt, CacheAt, TLBAt
    <2> QED BY <2>1, <2>3 DEF GroupAt, PartDown
  <1>5. ASSUME NEW g \in req.accessing
        PROVE  inflight[g] = NoAccess /\ \A t \in TLB, p \in req.pages \cap FoundByFlush : tlb[g][t][p] = NoTranslation
    <2>1. inflight[g] = NoAccess
      BY <1>4, PartsApart DEF Apart, Emptied
    <2>2. \A t \in TLB : Down(g) /\ t \in paused[g]
      BY <1>4 DEF Down
    <2> QED BY <1>4, <2>1, <2>2 DEF Apart, ShotDown
  <1> QED BY <1>2, <1>4, <1>5

(* Pages move in the phase of migration only, and they are the request's. *)
LEMMA MovingIs ==
    ASSUME Controlled
    PROVE  /\ Moving # {} => Phase = "migrate"
           /\ Phase = "migrate" => Moving \subseteq req.pages
  <1>1. Typed /\ Driven
    BY DEF Controlled
  <1>2. ASSUME Phase # "migrate" PROVE Moving = {}
    <2>1. OnePage = "nil" /\ ToMove = <<>>
      BY <1>1, <1>2, MoveIs
    <2>2. DOMAIN ToMove = {}
      BY <2>1
    <2>3. "nil" \notin Page
      BY DriverAssumption
    <2> QED BY <2>1, <2>2, <2>3 DEF Moving, OnePage, ToMove
  <1>3. ASSUME Phase = "migrate", NEW p \in Moving PROVE p \in req.pages
    <2>1. p \in Page /\ p # "nil"
      BY DriverAssumption DEF Moving
    <2>2. CASE OnePage = p
      BY <1>1, <2>1, <2>2 DEF Driven, Paging
    <2>3. CASE OnePage # p
      <3>1. PICK i \in DOMAIN ToMove : ToMove[i].page = p
        BY <2>3 DEF Moving, OnePage, ToMove
      <3>2. ToMove \in Seq(MoveMsg(req))
        BY <1>1, <1>3 DEF Driven, Paging, MoveMsg
      <3>3. PICK r : r = req
        OBVIOUS
      <3>4. PICK q \in Seq(MoveMsg(r)) : q = ToMove
        BY <3>2, <3>3
      <3>5. q[i] \in MoveMsg(r)
        BY <3>1, <3>4
      <3> QED BY <3>1, <3>3, <3>4, <3>5 DEF MoveMsg
    <2> QED BY <2>2, <2>3
  <1> QED BY <1>2, <1>3

(* Every accessing GPU has halted when pages move. *)
LEMMA MigratingHalts ==
    ASSUME Controlled, Phase = "migrate", NEW g \in req.accessing
    PROVE  Halted(g)
  <1>1. Handling /\ Legal(req)
    BY PhaseIs DEF PhaseFacts, Controlled, Driven, Phased
  <1>2. g \in GPU
    BY <1>1 DEF Legal, PageMigrationReq
  <1> QED BY <1>2 DEF Controlled, Driven, StagesMatch, StoppedNow

(* What the parts of the invariant say of pages on their way. *)
LEMMA QuiescedIs == Controlled /\ Apart /\ RdmaMatch => MigrationQuiesced
  <1> SUFFICES ASSUME Controlled, Apart, RdmaMatch, Moving # {} PROVE
        /\ \A g \in req.accessing :
            /\ CU \cup AT \cup Cache \cup TLB \subseteq paused[g]
            /\ inflight[g] = NoAccess
            /\ \A t \in TLB, p \in Moving \cap FoundByFlush : tlb[g][t][p] = NoTranslation
        /\ \A g \in GPU : "rdma" \in paused[g] /\ rdmaOut[g] = NoAccess
    BY DEF MigrationQuiesced, req
  <1>1. Phase = "migrate" /\ Moving \subseteq req.pages
    BY MovingIs
  <1>2. \A g \in req.accessing : Halted(g)
    BY <1>1, MigratingHalts
  <1> QED BY <1>1, <1>2, Isolated

(* Every step keeps kernels apart from pages on their way. *)
LEMMA StaysApart ==
    Controlled /\ Controlled' /\ OthersRun /\ Told /\ Apart /\ [Next]_vars => Apart'
  BY StaysAtHost, StaysEmptied, StaysShotDown, StaysInKernel DEF Apart

(* What the driver and the command processors keep of a migration, beside *)
(* their counters.                                                         *)
Orderly == OthersRun /\ RdmaMatch /\ Told /\ Apart

(* In every reachable state the stage of every GPU, its RDMA engine and the *)
(* commands under way agree, stopped L1 caches hold no access and stopped   *)
(* registered TLBs none of the entries their flush finds.                   *)
THEOREM OrderlyInvariant == Spec => []Orderly
  <1>1. Init => Orderly
    <2>1. Init => OthersRun
      BY DEF Init, CPInit, OthersRun
    <2> QED BY <2>1, StartsRdma, StartsTold, StartsApart DEF Orderly
  <1>2. Controlled /\ Controlled' /\ Orderly /\ [Next]_vars => Orderly'
    BY StaysRunning, StaysRdma, StaysTold, StaysApart DEF Orderly
  <1> QED BY <1>1, <1>2, DriverInvariant, PTL DEF Spec

(* While a page moves nobody reaches its old or new frame, whatever the     *)
(* unregistered TLBs and the entries the flush misses still say: every part *)
(* of the GPUs of the migration has stopped, no access waits there and all  *)
(* RDMA engines are drained (driver.go and commandprocessor.go).            *)
THEOREM MigrationAlwaysQuiesced == Spec => []MigrationQuiesced
  <1>1. Controlled /\ Orderly => MigrationQuiesced
    BY QuiescedIs DEF Orderly
  <1> QED BY <1>1, DriverInvariant, OrderlyInvariant, PTL

-----------------------------------------------------------------------------
(* Writes. *)

(* An L2 cache that stopped has written everything back. *)
CleanWhenOff == \A g \in GPU : "l2" \in paused[g] => \A id \in PullID : dirty[g][id] = Clean

(* A part other than an L2 cache that flushes changes no memory and no dirty line. *)
LEMMA PartDirty ==
    ASSUME Typed, NEW g \in GPU, PartStep(g)
    PROVE  \/ L2Flushes(g)
           \/ dirty' = dirty /\ mem' = mem /\ \A h \in GPU : "l2" \in paused'[h] => "l2" \in paused[h]
  <1>1. paused \in [GPU -> SUBSET Part]
    BY DEF Typed, CPTypeOK
  <1>2. ASSUME NEW p \in CU \cup AT \cup L1, StopsOrContinues(g, p)
        PROVE  dirty' = dirty /\ mem' = mem /\ \A h \in GPU : "l2" \in paused'[h] => "l2" \in paused[h]
    BY <1>1, <1>2, PartsApart DEF StopsOrContinues, pmcVars
  <1>3. ASSUME L2Restarts(g)
        PROVE  dirty' = dirty /\ mem' = mem /\ \A h \in GPU : "l2" \in paused'[h] => "l2" \in paused[h]
    BY <1>1, <1>3 DEF L2Restarts, pmcVars
  <1>4. ASSUME NEW t \in TLB, TLBHandles(g, t)
        PROVE  dirty' = dirty /\ mem' = mem /\ \A h \in GPU : "l2" \in paused'[h] => "l2" \in paused[h]
    BY <1>1, <1>4, PartsApart DEF TLBHandles, pmcVars
  <1> QED BY <1>2, <1>3, <1>4 DEF PartStep

(* A write reaches one L2 cache, which is not paused, and one chunk; it is *)
(* a write to the page on the GPU that has the page, if it lands at all.   *)
LEMMA L2Writing ==
    ASSUME Typed, NEW a \in Access, L2Writes(a)
    PROVE  /\ a.owner \in GPU /\ a.id \in PullID /\ a.data # Clean
           /\ "l2" \notin paused[a.owner]
           /\ \A h \in GPU, id \in PullID : h # a.owner \/ id # a.id => dirty'[h][id] = dirty[h][id]
           /\ \A id \in PullID : id # a.id \/ a.owner # pageTable[a.id[1]] => value'[id] = value[id]
           /\ a.owner = pageTable[a.id[1]] =>
                \/ dirty'[a.owner][a.id] = dirty[a.owner][a.id] /\ value'[a.id] = value[a.id]
                \/ dirty'[a.owner][a.id] = a.data /\ value'[a.id] = a.data
  <1>1. dirty \in [GPU -> [PullID -> Data \cup {Clean}]] /\ value \in [PullID -> Data]
    BY DEF Typed, CPTypeOK
  <1>2. a.owner \in GPU /\ a.id \in PullID /\ a.data \in Data
    BY DEF Access
  <1>3. a.data # Clean
    BY <1>2 DEF Data, Clean
  <1>4. CASE dirty' = dirty /\ value' = value
    BY <1>2, <1>3, <1>4 DEF L2Writes
  <1>5. CASE /\ dirty' = [dirty EXCEPT ![a.owner][a.id] = a.data]
             /\ value' = IF a.owner = pageTable[a.id[1]] THEN [value EXCEPT ![a.id] = a.data] ELSE value
    BY <1>1, <1>2, <1>3, <1>5 DEF L2Writes
  <1> QED BY <1>4, <1>5 DEF L2Writes

(* An L2 cache that is paused stays clean. *)
LEMMA StaysClean ==
    ASSUME Controlled, CleanWhenOff, [Next]_vars
    PROVE  CleanWhenOff'
  <1>1. /\ inflight \in [GPU -> Access \cup {NoAccess}] /\ rdmaOut \in [GPU -> Access \cup {NoAccess}]
        /\ paused \in [GPU -> SUBSET Part] /\ Typed /\ dirty \in [GPU -> [PullID -> Data \cup {Clean}]]
    BY DEF Controlled, Typed, CPTypeOK
  <1>2. CASE dirty' = dirty /\ \A h \in GPU : "l2" \in paused'[h] => "l2" \in paused[h]
    BY <1>2 DEF CleanWhenOff
  <1>3. CASE DriverStep
    BY <1>2, <1>3, DriverStepKeeps DEF GPUsKept
  <1>4. ASSUME NEW g \in GPU, GPUStep(g) PROVE CleanWhenOff'
    <2>1. CASE L2Flushes(g)
      BY <1>1, <2>1 DEF L2Flushes, CleanWhenOff
    <2>2. CASE PartStep(g) /\ ~L2Flushes(g)
      BY <1>1, <1>2, <2>2, PartDirty
    <2>3. CASE CPStep(g) \/ PMCAnswers(g) \/ (PMCStep(g) /\ UNCHANGED cpVars)
      BY <1>1, <1>2, <2>3, CPStepDrops
    <2>4. CASE RDMAPauses(g) \/ RDMADrained(g) \/ RDMARestarts(g) \/ DMACopies(g)
      BY <1>1, <1>2, <2>4, RDMAStepDrops
    <2> QED BY <1>4, <2>1, <2>2, <2>3, <2>4 DEF GPUStep
  <1>5. ASSUME NEW a \in Access, L2Writes(a), paused' = paused PROVE CleanWhenOff'
    BY <1>1, <1>5, L2Writing DEF CleanWhenOff
  <1>6. ASSUME NEW g \in GPU, KernelEnds(g) PROVE CleanWhenOff'
    <2>1. CASE LocalWrite(g)
      BY <1>1, <1>5, <2>1 DEF LocalWrite
    <2>2. CASE RemoteWrite(g)
      BY <1>1, <1>5, <2>2 DEF RemoteWrite
    <2>3. CASE RemoteRequest(g) \/ KernelDone(g)
      BY <1>2, <2>3 DEF RemoteRequest, KernelDone, cpVars, gpuVars
    <2> QED BY <1>6, <2>1, <2>2, <2>3 DEF KernelEnds
  <1>7. CASE Kernels \/ UNCHANGED vars
    BY <1>2, <1>7 DEF Kernels, Translate, MMURequests, vars, cpVars, gpuVars
  <1> QED BY <1>3, <1>4, <1>6, <1>7 DEF Next, System, Finished

-----------------------------------------------------------------------------
(* The page that moves, and who works on it.                               *)

Handler(g) == isHandlingPageMigration[g]
ReplyOut(g) == fromPart[g]["pmc"] # <<>> \/ After("migrate", g) # 0
OnItsWay(T, H, P) == T = req.to /\ H = req.host /\ P = OnePage

(* The copy a controller works on is the one the driver asked for; without *)
(* one all controllers are idle; an answer means that the page has arrived. *)
Pulled ==
    /\ PMCTypeOK
    /\ \A T, H \in GPU, P \in Page : OnItsWay(T, H, P) =>
         /\ Handler(T) /\ ~toSendToCtrlPort[T] => Copying(T, H, P)
         /\ (Handler(T) /\ toSendToCtrlPort[T]) \/ ReplyOut(T) => Arrived(T, H, P)
    /\ (\A g \in GPU : Handler(g) => toSendToCtrlPort[g]) => AllOff

(* A migration is before, in, or after one controller. *)
LEMMA Alone ==
    ASSUME Controlled, NEW g \in GPU, Handler(g) \/ ReplyOut(g) \/ ctrlPort[g] # <<>>
    PROVE  /\ OnePage # "nil" /\ g = req.to
           /\ Handler(g) => ~ReplyOut(g) /\ ctrlPort[g] = <<>>
           /\ ctrlPort[g] # <<>> => ~Handler(g) /\ ~ReplyOut(g)
  <1>1. Typed /\ Driven /\ CPTypeOK
    BY DEF Controlled, Typed
  <1>2. Under("migrate", g) = One(OnePage # "nil" /\ g = req.to)
    BY <1>1 DEF Driven, Paging
  <1>3. /\ Before("migrate", g) \in Nat /\ Inside("migrate", g) \in Nat /\ After("migrate", g) \in Nat
        /\ Under("migrate", g) = Before("migrate", g) + Inside("migrate", g) + After("migrate", g)
    BY <1>1, UnderIs, KindsAre
  <1>4. Inside("migrate", g) = Len(toPMCSender[g]) + Len(ctrlPort[g]) + One(isHandlingPageMigration[g])
                                 + Len(fromPart[g]["pmc"])
    BY InsideIs
  <1>5. toPMCSender[g] \in Seq(Migration) /\ ctrlPort[g] \in Seq(Migration) /\ fromPart[g]["pmc"] \in Seq(Control)
    BY <1>1, PartsApart DEF CPTypeOK, Typed
  <1>6. Len(toPMCSender[g]) \in Nat /\ Len(ctrlPort[g]) \in Nat /\ Len(fromPart[g]["pmc"]) \in Nat
        /\ One(isHandlingPageMigration[g]) \in Nat
    BY <1>5, LenProperties DEF One
  <1>7. PICK n \in Nat : n = Before("migrate", g)
    BY <1>3
  <1>8. PICK a \in Nat : a = Len(toPMCSender[g])
    BY <1>6
  <1>9. PICK b \in Nat : b = Len(ctrlPort[g])
    BY <1>6
  <1>10. PICK c \in Nat : c = One(isHandlingPageMigration[g])
    BY <1>6
  <1>11. PICK d \in Nat : d = Len(fromPart[g]["pmc"])
    BY <1>6
  <1>12. PICK e \in Nat : e = After("migrate", g)
    BY <1>3
  <1>13. Under("migrate", g) = n + (a + b + c + d) + e
    BY <1>3, <1>4, <1>7, <1>8, <1>9, <1>10, <1>11, <1>12
  <1>14. ctrlPort[g] # <<>> => b # 0
    BY <1>5, <1>9, EmptySeq
  <1>15. Handler(g) => c = 1
    BY <1>10 DEF Handler, One
  <1>16. ReplyOut(g) => d # 0 \/ e # 0
    BY <1>5, <1>11, <1>12, EmptySeq DEF ReplyOut
  <1>17. Under("migrate", g) # 0
    BY <1>13, <1>14, <1>15, <1>16
  <1>18. Under("migrate", g) = 1 /\ OnePage # "nil" /\ g = req.to
    BY <1>2, <1>17 DEF One
  <1>19. n + (a + b + c + d) + e = 1
    BY <1>13, <1>18
  <1> QED BY <1>14, <1>15, <1>16, <1>18, <1>19

(* The same after a step. *)
LEMMA AloneNext ==
   (\A g \in GPU : Controlled /\ (Handler(g) \/ ReplyOut(g) \/ ctrlPort[g] # <<>>) => OnePage # "nil" /\ g = req.to)'
  <1>1. \A g \in GPU : Controlled /\ (Handler(g) \/ ReplyOut(g) \/ ctrlPort[g] # <<>>) => OnePage # "nil" /\ g = req.to
    BY Alone
  <1> QED BY <1>1, PTL

(* The migration a page that moves belongs to. *)
LEMMA MoveAt ==
    ASSUME Controlled, OnePage # "nil"
    PROVE  /\ Phase = "migrate" /\ req \in PageMigrationReq /\ req.to # req.host
           /\ req.to \in GPU /\ req.host \in GPU /\ OnePage \in Page /\ OnePage \in req.pages
  <1>1. Typed /\ Driven
    BY DEF Controlled
  <1>2. Phase = "migrate"
    BY <1>1, MoveIs
  <1>3. Handling
    BY <1>2, PhaseIs DEF PhaseFacts
  <1>4. Legal(req)
    BY <1>1, <1>3 DEF Driven, Phased
  <1>5. OnePage \in req.pages
    BY <1>1 DEF Driven, Paging
  <1> QED BY <1>2, <1>4, <1>5 DEF Legal, PageMigrationReq

(* A controller copies on while nothing of what it works with changes. *)
LEMMA CopySame ==
    ASSUME NEW T \in GPU, NEW H \in GPU, NEW P \in Page, Copying(T, H, P),
           UNCHANGED <<mem, numDataRspPendingForPageMigration, pullVars, serveVars, netVars, memVars>>
    PROVE  Copying(T, H, P)'
  <1>1. WantShape(T, H, P) /\ ReadShape(T, H, P) /\ ReplyShape(T, H, P) /\ WriteShape(T, H, P)
    BY CopyParts
  <1>2. UNCHANGED <<mem, numDataRspPendingForPageMigration, toPullFromAnotherPMC, reqIDToWriteAddressMap,
                    writeReqLocalMemPort, requestingPMCtrlPort, toSendLocalMemPort, toRspToAnotherPMC,
                    wire, remotePort, memOps, localMemPort>>
    BY DEF pullVars, serveVars, netVars, memVars
  <1>3. WantShape(T, H, P)' /\ \A id : Wanting(T, H, id)' = Wanting(T, H, id)
    BY <1>1, <1>2, WantKept
  <1>4. ReadShape(T, H, P)' /\ \A id : Reading(H, id)' = Reading(H, id)
    BY <1>1, <1>2, ReadKept
  <1>5. ReplyShape(T, H, P)' /\ \A id : Replying(T, H, id)' = Replying(T, H, id)
    BY <1>1, <1>2, ReplyKept
  <1>6. WriteShape(T, H, P)' /\ \A id : Writing(T, id)' = Writing(T, id) /\ Acking(T, id)' = Acking(T, id)
    BY <1>1, <1>2, WriteKept
  <1>7. \A id : Pulling(T, H, id)' = Pulling(T, H, id)
    BY <1>3, <1>4, <1>5 DEF Pulling
  <1>8. \A g \in GPU \ {T, H} : PMCSame(g)
    BY <1>2 DEF PMCSame
  <1> QED BY <1>2, <1>3, <1>4, <1>5, <1>6, <1>7, <1>8, CopyKept

(* Controllers that are off stay off while their registers and ports stay. *)
LEMMA OffSame ==
    ASSUME AllOff, UNCHANGED <<numDataRspPendingForPageMigration, pullVars, serveVars, netVars, memVars>>
    PROVE  AllOff'
  BY DEF AllOff, PMCOff, pullVars, serveVars, netVars, memVars

(* The types of the controllers' state depend on that state only. *)
LEMMA TypeSame ==
    ASSUME PMCTypeOK, UNCHANGED pmcVars
    PROVE  PMCTypeOK'
  BY DEF PMCTypeOK, pmcVars, migrationVars, pullVars, serveVars, netVars, memVars

(* Chunks that have arrived stay while the memories stay. *)
LEMMA ArrivedSame ==
    ASSUME NEW T, NEW H, NEW P, Arrived(T, H, P), UNCHANGED mem
    PROVE  Arrived(T, H, P)'
  BY DEF Arrived

(* Controllers that stay as they are keep Pulled, if nobody answers and the page stays the same. *)
LEMMA PulledSame ==
    ASSUME Controlled, Controlled', Pulled, UNCHANGED pmcVars,
           \A g \in GPU : Handler(g) \/ ReplyOut(g)' => req' = req /\ OnePage' = OnePage,
           \A g \in GPU : ReplyOut(g)' => ReplyOut(g)
    PROVE  Pulled'
  <1>1. UNCHANGED <<mem, isHandlingPageMigration, toSendToCtrlPort, numDataRspPendingForPageMigration, pullVars,
                    serveVars, netVars, memVars>>
    BY DEF pmcVars, migrationVars
  <1>2. PMCTypeOK'
    BY TypeSame DEF Pulled
  <1>3. ASSUME \A g \in GPU : Handler(g)' => toSendToCtrlPort'[g] PROVE AllOff'
    <2>1. AllOff
      BY <1>1, <1>3 DEF Pulled, Handler
    <2> QED BY <1>1, <2>1, OffSame
  <1>4. ASSUME NEW T \in GPU, NEW H \in GPU, NEW P \in Page, OnItsWay(T, H, P)'
        PROVE  /\ Handler(T)' /\ ~toSendToCtrlPort'[T] => Copying(T, H, P)'
               /\ (Handler(T)' /\ toSendToCtrlPort'[T]) \/ ReplyOut(T)' => Arrived(T, H, P)'
    <2>1. CASE Handler(T)' \/ ReplyOut(T)'
      <3>1. Handler(T)' = Handler(T)
        BY <1>1 DEF Handler
      <3>2. req' = req /\ OnePage' = OnePage
        BY <2>1, <3>1
      <3>3. OnItsWay(T, H, P)
        BY <1>4, <3>2 DEF OnItsWay
      <3>4. Handler(T) /\ ~toSendToCtrlPort[T] => Copying(T, H, P)
        BY <3>3 DEF Pulled
      <3>5. (Handler(T) /\ toSendToCtrlPort[T]) \/ ReplyOut(T) => Arrived(T, H, P)
        BY <3>3 DEF Pulled
      <3>6. Handler(T)' /\ ~toSendToCtrlPort'[T] => Copying(T, H, P)'
        BY <1>1, <3>1, <3>4, CopySame
      <3>7. (Handler(T)' /\ toSendToCtrlPort'[T]) \/ ReplyOut(T)' => Arrived(T, H, P)'
        BY <1>1, <3>1, <3>5, ArrivedSame
      <3> QED BY <3>6, <3>7
    <2> QED BY <2>1
  <1> QED BY <1>2, <1>3, <1>4 DEF Pulled

-----------------------------------------------------------------------------
(* Answers of a migration.                                                 *)

(* A step makes no new answer when the page migration controller makes none. *)
NoNewReply == \A h \in GPU : ReplyOut(h)' => ReplyOut(h)

(* No reply of a migration appears while the controllers and the driver's port get none. *)
LEMMA ReplySame ==
    ASSUME Typed, \A h \in GPU : fromPart'[h]["pmc"] = fromPart[h]["pmc"],
           \/ uplink' = uplink
           \/ \E g \in GPU, k \in Answer : k # "migrate" /\ SendToDriver(g, k)
    PROVE  NoNewReply
  <1>1. CASE uplink' = uplink
    BY <1>1 DEF NoNewReply, ReplyOut, After
  <1>2. CASE \E g \in GPU, k \in Answer : k # "migrate" /\ SendToDriver(g, k)
    <2>1. PICK g \in GPU, k \in Answer : k # "migrate" /\ SendToDriver(g, k)
      BY <1>2
    <2>2. \A h \in GPU : After("migrate", h)' = After("migrate", h)
      BY <2>1, AfterSent
    <2> QED BY <2>2 DEF NoNewReply, ReplyOut
  <1> QED BY <1>1, <1>2

(* A command handed to the parts of a GPU is not a reply. *)
LEMMA ReplyRequests ==
    ASSUME Typed, NEW g \in GPU, ProcessReqFromDriver(g) \/ SendToPMC(g)
    PROVE  NoNewReply
  <1>1. uplink' = uplink /\ fromPart' = fromPart
    BY DEF ProcessReqFromDriver, ProcessLaunchKernelReq, ProcessFlushCommand, ProcessMemCopyReq,
       ProcessRDMADrainCmd, ProcessRDMARestartCommand, ProcessShootdownCommand, ProcessGPURestartReq,
       ProcessPageMigrationReq, SendToPMC
  <1> QED BY <1>1, ReplySame

(* Taking the response of another part than the controller adds no reply. *)
LEMMA ReplyTaken ==
    ASSUME Typed, NEW g \in GPU, NEW p \in Part, p # "pmc", Retrieve(g, p),
           uplink' = uplink \/ \E k \in Answer : k # "migrate" /\ SendToDriver(g, k)
    PROVE  NoNewReply
  <1>1. \A h \in GPU : fromPart'[h]["pmc"] = fromPart[h]["pmc"]
    BY TakenFrom, PartsApart DEF Typed
  <1> QED BY <1>1, ReplySame

(* The responses of the parts add no reply; the controller's own was one already. *)
LEMMA ReplyResponses ==
    ASSUME Typed, NEW g \in GPU, ProcessRspFromInternal(g)
    PROVE  NoNewReply
  <1>1. \A k \in {"launch", "flush", "copy", "drain", "shootdown", "gpuRestart", "rdmaRestart"} :
            k \in Answer /\ k # "migrate"
    BY DEF Answer
  <1>2. \A p \in CU \cup AT \cup Cache \cup TLB : p \in Part /\ p # "pmc"
    BY PartsApart
  <1>3. "rdma" \in Part /\ "dma" \in Part /\ "pmc" \in Part
    BY PartsApart
  <1>4. CASE ProcessMemCopyRsp(g)
    BY <1>1, <1>3, <1>4, ReplyTaken DEF ProcessMemCopyRsp
  <1>5. CASE ProcessRDMARsp(g)
    BY <1>1, <1>3, <1>5, ReplyTaken DEF ProcessRDMARsp
  <1>6. CASE ProcessPageMigrationRsp(g)
    <2>1. ReplyOut(g)
      BY <1>6 DEF ProcessPageMigrationRsp, From, ReplyOut
    <2>2. ASSUME NEW h \in GPU, h # g, ReplyOut(h)' PROVE ReplyOut(h)
      <3>1. fromPart'[h]["pmc"] = fromPart[h]["pmc"]
        BY <1>3, <1>6, <2>2, TakenFrom DEF ProcessPageMigrationRsp, Typed
      <3>2. SendToDriver(g, "migrate") /\ "migrate" \in Answer
        BY <1>6 DEF ProcessPageMigrationRsp, Answer
      <3>3. After("migrate", h)' = After("migrate", h)
        BY <2>2, <3>2, AfterSent
      <3> QED BY <2>2, <3>1, <3>3 DEF ReplyOut
    <2> QED BY <2>1, <2>2 DEF NoNewReply
  <1>7. ASSUME NEW c \in CU, ProcessCUPipelineFlushRsp(g, c) \/ ProcessCUPipelineRestartRsp(g, c)
        PROVE  NoNewReply
    BY <1>1, <1>2, <1>7, ReplyTaken DEF ProcessCUPipelineFlushRsp, ProcessCUPipelineRestartRsp
  <1>8. ASSUME NEW a \in AT, ProcessAddressTranslatorFlushRsp(g, a) \/ ProcessAddressTranslatorRestartRsp(g, a)
        PROVE  NoNewReply
    BY <1>1, <1>2, <1>8, ReplyTaken DEF ProcessAddressTranslatorFlushRsp, ProcessAddressTranslatorRestartRsp
  <1>9. ASSUME NEW c \in Cache, ProcessCacheFlushRsp(g, c) \/ ProcessCacheRestartRsp(g, c)
        PROVE  NoNewReply
    <2>1. c \in Part /\ c # "pmc" /\ Retrieve(g, c)
      BY <1>2, <1>9 DEF ProcessCacheFlushRsp, ProcessCacheRestartRsp
    <2>2. uplink' = uplink \/ SendToDriver(g, "flush")
      BY <1>9 DEF ProcessCacheFlushRsp, ProcessCacheRestartRsp, CacheFlushCausedByTLBShootdown
    <2> QED BY <1>1, <2>1, <2>2, ReplyTaken
  <1>10. ASSUME NEW t \in TLB, ProcessTLBFlushRsp(g, t) \/ ProcessTLBRestartRsp(g, t)
        PROVE  NoNewReply
    BY <1>1, <1>2, <1>10, ReplyTaken DEF ProcessTLBFlushRsp, ProcessTLBRestartRsp
  <1> QED BY <1>4, <1>5, <1>6, <1>7, <1>8, <1>9, <1>10 DEF ProcessRspFromInternal

(* The parts of a GPU other than the controller add no reply. *)
LEMMA ReplyParts ==
    ASSUME Typed, NEW g \in GPU, PartStep(g) \/ RDMAPauses(g) \/ RDMADrained(g) \/ RDMARestarts(g) \/ DMACopies(g)
    PROVE  NoNewReply
  <1>1. uplink' = uplink
    BY PartHandles DEF RDMAPauses, RDMADrained, RDMARestarts, DMACopies, portVars
  <1>2. ASSUME NEW p \in Part, p # "pmc", Answers(g, p) PROVE \A h \in GPU : fromPart'[h]["pmc"] = fromPart[h]["pmc"]
    BY <1>2, AnsweredBy, PartsApart DEF Typed
  <1>3. CASE fromPart' = fromPart
    BY <1>1, <1>3, ReplySame
  <1>4. (\E p \in Part : p # "pmc" /\ Answers(g, p)) \/ fromPart' = fromPart
    <2>1. \A p \in CU \cup AT \cup L1 \cup {"l2"} \cup TLB \cup {"rdma", "dma"} : p \in Part /\ p # "pmc"
      BY PartsApart
    <2>2. CASE PartStep(g)
      BY <2>1, <2>2 DEF PartStep, StopsOrContinues, L2Flushes, L2Restarts, TLBHandles
    <2>3. CASE RDMAPauses(g)
      BY <2>3 DEF RDMAPauses, portVars
    <2>4. CASE RDMADrained(g) \/ RDMARestarts(g) \/ DMACopies(g)
      BY <2>1, <2>4 DEF RDMADrained, RDMARestarts, DMACopies
    <2> QED BY <2>2, <2>3, <2>4
  <1> QED BY <1>1, <1>2, <1>3, <1>4, ReplySame

(* The driver adds no reply. *)
LEMMA ReplyDriver ==
    ASSUME Typed, Typed', DriverStep
    PROVE  NoNewReply
  <1>1. fromPart' = fromPart
    BY DriverStepKeeps DEF GPUsKept
  <1>2. CASE uplink' = uplink
    BY <1>1, <1>2, ReplySame
  <1>3. CASE \E g \in GPU : uplink[g] # <<>> /\ uplink' = [uplink EXCEPT ![g] = Tail(@)]
    <2>1. PICK g \in GPU : uplink[g] # <<>> /\ uplink' = [uplink EXCEPT ![g] = Tail(@)]
      BY <1>3
    <2>2. ASSUME NEW h \in GPU, ReplyOut(h)' PROVE ReplyOut(h)
      <3>1. CASE After("migrate", h)' # 0
        <4>1. CASE h = g /\ Head(uplink[g]) = "migrate"
          <5>1. After("migrate", g) # 0
            BY <2>1, <4>1, AfterTaken
          <5> QED BY <4>1, <5>1 DEF ReplyOut
        <4>2. CASE h # g \/ Head(uplink[g]) # "migrate"
          <5>1. After("migrate", h)' = After("migrate", h)
            BY <2>1, <4>2, AfterLeft, KindsAre
          <5> QED BY <3>1, <5>1 DEF ReplyOut
        <4> QED BY <4>1, <4>2
      <3> QED BY <1>1, <2>2, <3>1 DEF ReplyOut
    <2> QED BY <2>2 DEF NoNewReply
  <1>4. uplink' = uplink \/ \E g \in GPU : uplink[g] # <<>> /\ uplink' = [uplink EXCEPT ![g] = Tail(@)]
    BY DEF DriverStep, SendToGPUs, SendToMMU, SendMigrationReqToCP, ProcessCommandReturn,
     ProcessRDMADrainRsp, ProcessShootdownCompleteRsp, ProcessPageMigrationRspFromCP, HandleGPURestartRsp,
     ProcessRDMARestartRspToDriver, ProcessOneCommand, ParseFromMMU, ToCPUnchanged, Return, cpVars, portVars
  <1> QED BY <1>2, <1>3, <1>4

(* The driver leaves the controllers alone while a page is on its way. *)
LEMMA PulledDriver ==
    ASSUME Controlled, Controlled', Pulled, DriverStep
    PROVE  Pulled'
  <1>1. NoNewReply /\ UNCHANGED pmcVars
    BY ReplyDriver, DriverStepKeeps DEF GPUsKept, Controlled
  <1>2. ASSUME NEW g \in GPU, Handler(g) \/ ReplyOut(g)' PROVE req' = req /\ OnePage' = OnePage
    <2>1. Handler(g)' = Handler(g)
      BY <1>1 DEF Handler, pmcVars, migrationVars
    <2>2. Handler(g) \/ ReplyOut(g)
      BY <1>1, <1>2 DEF NoNewReply
    <2>3. OnePage # "nil"
      BY <2>2, Alone
    <2>4. OnePage' # "nil"
      BY <1>2, <2>1, AloneNext
    <2>5. Phase = "migrate"
      BY <2>3, MoveAt
    <2>6. Turns
      BY DriverTurns
    <2> QED BY <2>3, <2>4, <2>5, <2>6 DEF Turns, Holding, Forwarding, Ordering, Loading, Landing, Drained,
            Shot, Moved, Restarted, Over, Beginning, Keeps
  <1> QED BY <1>1, <1>2, PulledSame DEF NoNewReply

-----------------------------------------------------------------------------
(* The controllers of the GPUs and the migrations.                         *)

(* No L2 cache writes back while pages move: the accessing GPUs have       *)
(* stopped, and no flush is under way on any other.                        *)
LEMMA NoWriteBack ==
    ASSUME Controlled, Phase \in {"migrate"}, NEW g \in GPU, L2Flushes(g)
    PROVE  FALSE
  <1>1. Typed /\ Staged /\ Driven
    BY DEF Controlled
  <1>2. PICK s \in Stage : s = StageOf(g) /\ GPUAt(g, s)
    BY <1>1, StageOfIs
  <1>3. "l2" \in Cache /\ toPart[g]["l2"] # <<>> /\ Head(toPart[g]["l2"]) \in {"flush", "reset"}
    BY PartsApart DEF L2Flushes, HasRequest
  <1>4. "shootdown" \in Kinds /\ "shootdown" \in Sweeps /\ "flush" \in Kinds
    BY KindsAre
  <1>5. ~Flushing(g)
    <2>1. Under("flush", g) = 0
      BY <1>1, PhaseAsks
    <2>2. Before("flush", g) \in Nat /\ Inside("flush", g) \in Nat /\ After("flush", g) \in Nat
      BY <1>1, <1>4, CountsTyped
    <2>3. Inside("flush", g) = 0
      BY <2>1, <2>2 DEF Under
    <2> QED BY <2>3, InsideIs DEF One
  <1>6. s \notin Stops
    <2>1. Under("shootdown", g) = 0
      BY <1>1, <1>4, DueIs DEF Driven
    <2>2. Before("shootdown", g) \in Nat /\ Inside("shootdown", g) \in Nat /\ After("shootdown", g) \in Nat
      BY <1>1, <1>4, CountsTyped
    <2>3. Inside("shootdown", g) = 0
      BY <2>1, <2>2 DEF Under
    <2> QED BY <1>2, <2>3, InsideIs DEF One
  <1>7. CASE CacheAt(s) = "up"
    <2>1. PartUp(g, "l2")
      BY <1>2, <1>3, <1>7 DEF GPUAt, GroupAt
    <2> QED BY <1>3, <1>5, <2>1 DEF PartUp, Quiet, Flushing, Replied
  <1>8. CASE CacheAt(s) = "down"
    <2>1. PartDown(g, "l2")
      BY <1>2, <1>3, <1>8 DEF GPUAt, GroupAt
    <2> QED BY <1>3, <2>1 DEF PartDown, Quiet
  <1>9. CASE CacheAt(s) = "starts"
    <2>1. PartStarts(g, "l2")
      BY <1>2, <1>3, <1>9 DEF GPUAt, GroupAt
    <2>2. toPart[g]["l2"] = <<"restart">>
      BY <1>3, <2>1 DEF PartStarts, Asked, Replied, Quiet
    <2> QED BY <1>3, <2>2
  <1>10. CASE CacheAt(s) = "stops"
    <2>1. s = "stopCache"
      BY <1>10 DEF CacheAt
    <2> QED BY <1>6, <2>1 DEF Stops
  <1> QED BY <1>7, <1>8, <1>9, <1>10 DEF CacheAt

(* Which steps change a copy. *)
LEMMA PMCStepKinds ==
    ASSUME NEW g \in GPU, PMCStep(g), ~ProcessPageMigrationReqFromCtrlPort(g)
    PROVE  isHandlingPageMigration' = isHandlingPageMigration /\ ctrlPort' = ctrlPort
  BY DEF PMCStep, Deliver, MemServes, SendMigrationReqToAnotherPMC, SendDataReadyRspToRequestingPMC,
     SendReadReqLocalMemPort, SendWriteReqLocalMemPort, HandleDataPullReq, HandleDataPullRsp,
     HandleDataReadyRspFromMemCtrl, HandleWriteDoneRspFromMemCtrl, migrationVars

(* The replies under way depend on the ports of the command processors only. *)
LEMMA ReplyStill ==
    ASSUME UNCHANGED cpVars
    PROVE  \A h \in GPU : ReplyOut(h)' = ReplyOut(h)
  BY DEF ReplyOut, After, cpVars, portVars

(* A controller takes up a migration. *)
LEMMA PulledTaken ==
    ASSUME Controlled, MoveTold, Pulled, NEW g \in GPU, ProcessPageMigrationReqFromCtrlPort(g),
           UNCHANGED cpVars, driver' = driver, PMCTypeOK'
    PROVE  Pulled'
  <1>1. ctrlPort[g] # <<>> /\ ~Handler(g)
    BY DEF ProcessPageMigrationReqFromCtrlPort, Handler
  <1>2. OnePage # "nil" /\ g = req.to /\ ~ReplyOut(g)
    BY <1>1, Alone
  <1>3. \A h \in GPU : h # g => ~Handler(h) /\ ~ReplyOut(h)
    BY <1>2, Alone
  <1>4. AllOff /\ PMCTypeOK
    BY <1>1, <1>3 DEF Pulled
  <1>5. PICK H \in GPU, P \in Page : H = req.host /\ P = OnePage /\ g # H
    BY <1>2, MoveAt
  <1>6. PICK m : m = Now
    OBVIOUS
  <1>7. m = [page |-> P, from |-> H]
    BY <1>5, <1>6 DEF Now
  <1>8. Head(ctrlPort[g]) = m
    <2>1. ctrlPort[g] \in Seq(Migration)
      BY DEF Controlled, Typed
    <2>2. PICK q \in Seq(Migration) : q = ctrlPort[g]
      BY <2>1
    <2>3. 1 \in DOMAIN q /\ Head(q) = q[1]
      BY <1>1, <2>2
    <2>4. ctrlPort[g][1] = Now
      BY <2>2, <2>3 DEF MoveTold
    <2> QED BY <1>6, <2>2, <2>3, <2>4
  <1>9. Copying(g, H, P)'
    BY <1>4, <1>5, <1>7, <1>8, CopyStarts
  <1>10. /\ toSendToCtrlPort' = toSendToCtrlPort
         /\ isHandlingPageMigration' = [isHandlingPageMigration EXCEPT ![g] = TRUE]
    BY DEF ProcessPageMigrationReqFromCtrlPort
  <1>11. ~toSendToCtrlPort[g]
    BY <1>1 DEF Controlled, Answering, Handler
  <1>12. Handler(g)' /\ \A h \in GPU : h # g => ~Handler(h)'
    BY <1>3, <1>10 DEF Handler, Controlled, Typed
  <1>13. \A h \in GPU : ~ReplyOut(h)'
    BY <1>2, <1>3, ReplyStill
  <1>14. \A T \in GPU, F \in GPU, Q \in Page : OnItsWay(T, F, Q)' => T = g /\ F = H /\ Q = P
    BY <1>2, <1>5 DEF OnItsWay, req, OnePage
  <1> QED BY <1>9, <1>10, <1>11, <1>12, <1>13, <1>14 DEF Pulled

(* The controllers go on with a copy, or end it. *)
LEMMA PulledCopy ==
    ASSUME Controlled, Pulled, NEW g \in GPU, PMCStep(g), ~ProcessPageMigrationReqFromCtrlPort(g),
           UNCHANGED cpVars, driver' = driver, PMCTypeOK'
    PROVE  Pulled'
  <1>1. PMCTypeOK
    BY DEF Pulled
  <1>2. ~AllOff
    BY <1>1, OffSteps
  <1>3. PICK T \in GPU : Handler(T) /\ ~toSendToCtrlPort[T]
    BY <1>2 DEF Pulled
  <1>4. OnePage # "nil" /\ T = req.to /\ ~ReplyOut(T)
    BY <1>3, Alone
  <1>5. \A h \in GPU : h # T => ~Handler(h) /\ ~ReplyOut(h)
    BY <1>4, Alone
  <1>6. PICK H \in GPU, P \in Page : H = req.host /\ P = OnePage /\ T # H
    BY <1>4, MoveAt
  <1>7. OnItsWay(T, H, P)
    BY <1>4, <1>6 DEF OnItsWay
  <1>8. CopyAt(T, H, P)
    BY <1>1, <1>3, <1>7 DEF Pulled, CopyAt
  <1>9. CopyGoesOn(T, H, P) \/ CopyEnds(T, H, P)
    BY <1>8, CopySteps
  <1>10. \A h \in GPU : Handler(h)' = Handler(h)
    BY PMCStepKinds DEF Handler
  <1>11. \A h \in GPU : ~ReplyOut(h)'
    BY <1>4, <1>5, ReplyStill
  <1>12. \A X \in GPU, F \in GPU, Q \in Page : OnItsWay(X, F, Q)' => X = T /\ F = H /\ Q = P
    BY <1>4, <1>6 DEF OnItsWay, req, OnePage
  <1>13. CASE CopyGoesOn(T, H, P)
    <2>1. Copying(T, H, P)' /\ toSendToCtrlPort' = toSendToCtrlPort
      BY <1>13 DEF CopyGoesOn
    <2> QED BY <1>3, <1>5, <1>10, <1>11, <1>12, <2>1 DEF Pulled
  <1>14. CASE CopyEnds(T, H, P)
    <2>1. AllOff' /\ Arrived(T, H, P)' /\ toSendToCtrlPort' = [toSendToCtrlPort EXCEPT ![T] = TRUE]
      BY <1>14 DEF CopyEnds
    <2>2. toSendToCtrlPort'[T]
      BY <2>1 DEF Controlled, Typed
    <2> QED BY <1>5, <1>10, <1>11, <1>12, <2>1, <2>2 DEF Pulled
  <1> QED BY <1>9, <1>13, <1>14

(* A controller answers its command processor. *)
LEMMA PulledAnswered ==
    ASSUME Controlled, Pulled, NEW g \in GPU, PMCAnswers(g), driver' = driver, PMCTypeOK'
    PROVE  Pulled'
  <1>1. /\ toSendToCtrlPort[g]
        /\ isHandlingPageMigration' = [isHandlingPageMigration EXCEPT ![g] = FALSE]
        /\ UNCHANGED <<mem, numDataRspPendingForPageMigration, pullVars, serveVars, netVars, memVars>>
    BY DEF PMCAnswers, SendMigrationCompleteRspToCtrlPort
  <1>2. Handler(g)
    BY <1>1 DEF Controlled, Answering, Handler
  <1>3. OnePage # "nil" /\ g = req.to
    BY <1>2, Alone
  <1>4. \A h \in GPU : h # g => ~Handler(h)
    BY <1>3, Alone
  <1>5. PICK H \in GPU, P \in Page : H = req.host /\ P = OnePage
    BY <1>3, MoveAt
  <1>6. OnItsWay(g, H, P)
    BY <1>3, <1>5 DEF OnItsWay
  <1>7. Arrived(g, H, P) /\ AllOff
    BY <1>1, <1>2, <1>4, <1>6 DEF Pulled
  <1>8. Arrived(g, H, P)' /\ AllOff'
    BY <1>1, <1>7, ArrivedSame, OffSame
  <1>9. \A h \in GPU : ~Handler(h)'
    BY <1>1, <1>4 DEF Handler, Controlled, Typed
  <1>10. \A X \in GPU, F \in GPU, Q \in Page : OnItsWay(X, F, Q)' => X = g /\ F = H /\ Q = P
    BY <1>3, <1>5 DEF OnItsWay, req, OnePage
  <1> QED BY <1>8, <1>9, <1>10 DEF Pulled

(* A migration is sent on to its controller. *)
LEMMA PulledSent ==
    ASSUME Controlled, Pulled, NEW g \in GPU, SendToPMC(g), driver' = driver, PMCTypeOK'
    PROVE  Pulled'
  <1>1. /\ UNCHANGED <<mem, numDataRspPendingForPageMigration, pullVars, serveVars, netVars, memVars>>
        /\ isHandlingPageMigration' = isHandlingPageMigration /\ toSendToCtrlPort' = toSendToCtrlPort
    BY DEF SendToPMC
  <1>2. NoNewReply
    BY ReplyRequests DEF Controlled
  <1>3. \A T \in GPU, H \in GPU, P \in Page : OnItsWay(T, H, P)' = OnItsWay(T, H, P)
    BY DEF OnItsWay, req, OnePage
  <1>4. \A h \in GPU : Handler(h)' = Handler(h)
    BY <1>1 DEF Handler
  <1>5. ASSUME \A h \in GPU : Handler(h)' => toSendToCtrlPort'[h] PROVE AllOff'
    <2>1. AllOff
      BY <1>1, <1>4, <1>5 DEF Pulled
    <2> QED BY <1>1, <2>1, OffSame
  <1>6. ASSUME NEW T \in GPU, NEW H \in GPU, NEW P \in Page, OnItsWay(T, H, P)'
        PROVE  /\ Handler(T)' /\ ~toSendToCtrlPort'[T] => Copying(T, H, P)'
               /\ (Handler(T)' /\ toSendToCtrlPort'[T]) \/ ReplyOut(T)' => Arrived(T, H, P)'
    <2>1. OnItsWay(T, H, P)
      BY <1>3, <1>6
    <2>2. /\ Handler(T) /\ ~toSendToCtrlPort[T] => Copying(T, H, P)
          /\ (Handler(T) /\ toSendToCtrlPort[T]) \/ ReplyOut(T) => Arrived(T, H, P)
      BY <2>1 DEF Pulled
    <2>3. Handler(T)' /\ ~toSendToCtrlPort'[T] => Copying(T, H, P)'
      BY <1>1, <1>4, <2>2, CopySame
    <2>4. (Handler(T)' /\ toSendToCtrlPort'[T]) \/ ReplyOut(T)' => Arrived(T, H, P)'
      BY <1>1, <1>2, <1>4, <2>2, ArrivedSame DEF NoNewReply
    <2> QED BY <2>3, <2>4
  <1> QED BY <1>5, <1>6 DEF Pulled

-----------------------------------------------------------------------------
(* The steps of a GPU.                                                     *)

(* A controller that is at work copies the page that moves. *)
LEMMA AtWork ==
    ASSUME Controlled, Pulled, ~AllOff
    PROVE  \E T \in GPU, H \in GPU, P \in Page :
              OnItsWay(T, H, P) /\ Copying(T, H, P) /\ Handler(T) /\ ~toSendToCtrlPort[T]
  <1>1. PICK T \in GPU : Handler(T) /\ ~toSendToCtrlPort[T]
    BY DEF Pulled
  <1>2. OnePage # "nil" /\ T = req.to
    BY <1>1, Alone
  <1>3. PICK H \in GPU, P \in Page : H = req.host /\ P = OnePage
    BY <1>2, MoveAt
  <1>4. OnItsWay(T, H, P)
    BY <1>2, <1>3 DEF OnItsWay
  <1>5. Copying(T, H, P)
    BY <1>1, <1>4 DEF Pulled
  <1> QED BY <1>1, <1>4, <1>5

(* Data is read for a controller that pulls. *)
LEMMA ReadFor ==
    ASSUME Controlled, Pulled, NEW g \in GPU, HandleDataReadyRspFromMemCtrl(g)
    PROVE  requestingPMCtrlPort[g] \in GPU
  <1>1. localMemPort[g] # <<>> /\ Head(localMemPort[g]).type = "read"
    BY DEF HandleDataReadyRspFromMemCtrl
  <1>2. ~AllOff
    BY <1>1 DEF AllOff, PMCOff
  <1>3. PICK T \in GPU, H \in GPU, P \in Page : Copying(T, H, P)
    BY <1>2, AtWork
  <1>4. ReadShape(T, H, P) /\ WriteShape(T, H, P) /\ Bystanders(T, H)
    BY <1>3, CopyParts
  <1>5. g # T
    <2> SUFFICES ASSUME g = T PROVE FALSE
      OBVIOUS
    <2>1. PICK q \in Seq(WriteOp(H, P)) : q = localMemPort[T]
      BY <1>4 DEF WriteShape
    <2>2. q # <<>> /\ Head(q).type = "read"
      BY <1>1, <2>1
    <2>3. Head(q) \in WriteOp(H, P)
      BY <2>2
    <2> QED BY <2>2, <2>3 DEF WriteOp, Current
  <1>6. g = H
    BY <1>1, <1>4, <1>5 DEF Bystanders, PMCOff
  <1> QED BY <1>1, <1>4, <1>6 DEF ReadShape

(* Only the L2 cache of a GPU touches what the controllers work with, its memory. *)
LEMMA PartLeaves ==
    ASSUME NEW g \in GPU, PartStep(g), ~L2Flushes(g)
    PROVE  UNCHANGED pmcVars
  BY DEF PartStep, StopsOrContinues, L2Restarts, TLBHandles

(* Only the sender to the controller touches its port. *)
LEMMA CPLeaves ==
    ASSUME NEW g \in GPU, ProcessReqFromDriver(g) \/ ProcessRspFromInternal(g)
    PROVE  UNCHANGED pmcVars
  <1>1. CASE ProcessReqFromDriver(g)
    BY <1>1 DEF ProcessReqFromDriver, ProcessLaunchKernelReq, ProcessFlushCommand, ProcessMemCopyReq,
       ProcessRDMADrainCmd, ProcessRDMARestartCommand, ProcessShootdownCommand, ProcessGPURestartReq,
       ProcessPageMigrationReq
  <1>2. CASE ProcessRspFromInternal(g)
    BY <1>2 DEF ProcessRspFromInternal, ProcessMemCopyRsp, ProcessRDMARsp, ProcessPageMigrationRsp,
       ProcessCUPipelineFlushRsp, ProcessCUPipelineRestartRsp, ProcessAddressTranslatorFlushRsp,
       ProcessAddressTranslatorRestartRsp, ProcessCacheFlushRsp, ProcessCacheRestartRsp,
       ProcessTLBFlushRsp, ProcessTLBRestartRsp
  <1> QED BY <1>1, <1>2

(* What the L2 cache writes back is data. *)
LEMMA FlushTyped ==
    ASSUME Typed, PMCTypeOK, NEW g \in GPU, L2Flushes(g)
    PROVE  PMCTypeOK'
  <1>1. /\ mem' = [mem EXCEPT ![g] = [id \in PullID |-> IF dirty[g][id] = Clean THEN mem[g][id] ELSE dirty[g][id]]]
        /\ UNCHANGED <<migrationVars, pullVars, serveVars, netVars, memVars>>
    BY DEF L2Flushes
  <1>2. PICK D : D = Data
    OBVIOUS
  <1>3. mem \in [GPU -> [PullID -> D]] /\ dirty \in [GPU -> [PullID -> D \cup {Clean}]]
    BY <1>2 DEF PMCTypeOK, Typed, CPTypeOK
  <1>4. mem' \in [GPU -> [PullID -> D]]
    BY <1>1, <1>3
  <1> QED BY <1>1, <1>2, <1>4 DEF PMCTypeOK, migrationVars, pullVars, serveVars, netVars, memVars

(* The controller's port takes a migration. *)
LEMMA PortTyped ==
    ASSUME Typed, PMCTypeOK, NEW g \in GPU, SendToPMC(g)
    PROVE  PMCTypeOK'
  <1>1. PICK q \in Seq(Migration) : q = toPMCSender[g]
    BY DEF Typed, CPTypeOK
  <1>2. q # <<>> /\ Head(q) \in Migration
    BY <1>1 DEF SendToPMC
  <1>3. PICK m \in Migration : m = Head(q)
    BY <1>2
  <1>4. ctrlPort' = [ctrlPort EXCEPT ![g] = <<m>>]
        /\ UNCHANGED <<mem, currentMigrationRequest, isHandlingPageMigration, toSendToCtrlPort,
                   numDataRspPendingForPageMigration, pullVars, serveVars, netVars, memVars>>
    BY <1>1, <1>3 DEF SendToPMC
  <1>5. <<m>> \in Seq(Migration)
    OBVIOUS
  <1>6. ctrlPort' \in [GPU -> Seq(Migration)]
    BY <1>4, <1>5 DEF PMCTypeOK
  <1> QED BY <1>4, <1>6 DEF PMCTypeOK, pullVars, serveVars, netVars, memVars

(* Every step of a GPU keeps the types of the controllers. *)
LEMMA GPUStepPMC ==
    ASSUME Controlled, Pulled, NEW g \in GPU, GPUStep(g)
    PROVE  PMCTypeOK'
  <1>1. Typed /\ PMCTypeOK
    BY DEF Controlled, Pulled
  <1>2. CASE UNCHANGED pmcVars
    BY <1>1, <1>2, TypeSame
  <1>3. CASE PMCStep(g)
    BY <1>1, <1>3, ReadFor, PMCStepTyped
  <1>4. CASE CPStep(g)
    <2>1. CASE SendToPMC(g)
      BY <1>1, <2>1, PortTyped
    <2>2. CASE ProcessReqFromDriver(g) \/ ProcessRspFromInternal(g)
      BY <1>2, <2>2, CPLeaves
    <2> QED BY <1>4, <2>1, <2>2 DEF CPStep
  <1>5. CASE PMCAnswers(g)
    BY <1>1, <1>5, DoneTyped DEF PMCAnswers
  <1>6. CASE PartStep(g)
    BY <1>1, <1>2, <1>6, PartLeaves, FlushTyped
  <1>7. CASE RDMAPauses(g) \/ RDMADrained(g) \/ RDMARestarts(g) \/ DMACopies(g)
    BY <1>2, <1>7 DEF RDMAPauses, RDMADrained, RDMARestarts, DMACopies
  <1> QED BY <1>3, <1>4, <1>5, <1>6, <1>7 DEF GPUStep

(* An L2 cache writes back only when no page is on its way. *)
LEMMA PulledFlush ==
    ASSUME Controlled, Controlled', Pulled, NEW g \in GPU, L2Flushes(g), driver' = driver, PMCTypeOK'
    PROVE  Pulled'
  <1>1. Phase \notin {"migrate"}
    BY NoWriteBack
  <1>2. Typed /\ Driven
    BY DEF Controlled
  <1>3. OnePage = "nil" /\ OnePage' = "nil"
    BY <1>1, <1>2, MoveIs DEF OnePage
  <1>4. \A h \in GPU : ~Handler(h)
    BY <1>3, NothingMoves DEF Handler
  <1>5. \A h \in GPU : ~Handler(h)' /\ ~ReplyOut(h)'
    BY <1>3, AloneNext
  <1>6. AllOff
    BY <1>4 DEF Pulled
  <1>7. UNCHANGED <<numDataRspPendingForPageMigration, pullVars, serveVars, netVars, memVars>>
    BY DEF L2Flushes, migrationVars
  <1>8. AllOff'
    BY <1>6, <1>7, OffSame
  <1> QED BY <1>5, <1>8 DEF Pulled

-----------------------------------------------------------------------------
(* The invariant of a copy.                                                *)

(* A step that makes no answer and leaves the driver and the controllers. *)
LEMMA PulledQuietly ==
    ASSUME Controlled, Controlled', Pulled, UNCHANGED pmcVars, driver' = driver, NoNewReply
    PROVE  Pulled'
  <1>1. req' = req /\ OnePage' = OnePage
    BY DEF req, OnePage
  <1> QED BY <1>1, PulledSame DEF NoNewReply

(* Steps of a GPU but those of its page migration controller. *)
LEMMA PulledParts ==
    ASSUME Controlled, Controlled', Orderly, Pulled, NEW g \in GPU, driver' = driver, PMCTypeOK',
           \/ CPStep(g) \/ PMCAnswers(g) \/ PartStep(g)
           \/ RDMAPauses(g) \/ RDMADrained(g) \/ RDMARestarts(g) \/ DMACopies(g)
    PROVE  Pulled'
  <1>1. Typed
    BY DEF Controlled
  <1>2. CASE SendToPMC(g)
    BY <1>2, PulledSent
  <1>3. CASE ProcessReqFromDriver(g)
    BY <1>1, <1>3, CPLeaves, ReplyRequests, PulledQuietly
  <1>4. CASE ProcessRspFromInternal(g)
    BY <1>1, <1>4, CPLeaves, ReplyResponses, PulledQuietly
  <1>5. CASE PMCAnswers(g)
    BY <1>5, PulledAnswered
  <1>6. CASE PartStep(g)
    <2>1. CASE L2Flushes(g)
      BY <2>1, PulledFlush
    <2>2. CASE ~L2Flushes(g)
      BY <1>1, <1>6, <2>2, PartLeaves, ReplyParts, PulledQuietly
    <2> QED BY <2>1, <2>2
  <1>7. CASE RDMAPauses(g) \/ RDMADrained(g) \/ RDMARestarts(g) \/ DMACopies(g)
    <2>1. UNCHANGED pmcVars
      BY <1>7 DEF RDMAPauses, RDMADrained, RDMARestarts, DMACopies
    <2>2. NoNewReply
      BY <1>1, <1>7, ReplyParts
    <2> QED BY <2>1, <2>2, PulledQuietly
  <1> QED BY <1>2, <1>3, <1>4, <1>5, <1>6, <1>7 DEF CPStep

(* A step of a GPU keeps the copy of the page in order. *)
LEMMA PulledGPU ==
    ASSUME Controlled, Controlled', Orderly, Pulled, NEW g \in GPU, GPUStep(g)
    PROVE  Pulled'
  <1>1. PMCTypeOK'
    BY GPUStepPMC
  <1>2. driver' = driver
    BY DEF GPUStep, ComposedUnchanged, RDMAPauses, RDMADrained, RDMARestarts, DMACopies
  <1>3. MoveTold
    BY DEF Orderly, Told
  <1>4. CASE PMCStep(g) /\ UNCHANGED cpVars /\ ProcessPageMigrationReqFromCtrlPort(g)
    BY <1>1, <1>2, <1>3, <1>4, PulledTaken
  <1>5. CASE PMCStep(g) /\ UNCHANGED cpVars /\ ~ProcessPageMigrationReqFromCtrlPort(g)
    BY <1>1, <1>2, <1>5, PulledCopy
  <1>6. CASE \/ CPStep(g) \/ PMCAnswers(g) \/ PartStep(g)
             \/ RDMAPauses(g) \/ RDMADrained(g) \/ RDMARestarts(g) \/ DMACopies(g)
    BY <1>1, <1>2, <1>6, PulledParts
  <1> QED BY <1>4, <1>5, <1>6 DEF GPUStep

(* Kernels and the MMU leave the controllers alone. *)
LEMMA PulledKernel ==
    ASSUME Controlled, Controlled', Pulled, Kernels \/ (\E g \in GPU : KernelEnds(g)) \/ UNCHANGED vars
    PROVE  Pulled'
  <1>1. Typed
    BY DEF Controlled
  <1>2. CASE UNCHANGED <<pmcVars, uplink, fromPart, driver>>
    <2>1. NoNewReply
      BY <1>1, <1>2, ReplySame
    <2> QED BY <1>2, <2>1, PulledQuietly
  <1>3. CASE Kernels \/ UNCHANGED vars
    BY <1>2, <1>3 DEF Kernels, Translate, MMURequests, vars, cpVars, portVars
  <1>4. ASSUME NEW g \in GPU, KernelEnds(g) PROVE Pulled'
    <2>1. CASE LocalWrite(g) \/ RemoteRequest(g) \/ RemoteWrite(g)
      BY <1>2, <2>1 DEF LocalWrite, RemoteRequest, RemoteWrite, cpVars, portVars
    <2>2. CASE KernelDone(g)
      <3>1. "launch" \in Answer /\ "launch" # "migrate" /\ SendToDriver(g, "launch")
            /\ UNCHANGED <<pmcVars, fromPart, driver>>
        BY <2>2 DEF KernelDone, Answer
      <3>2. NoNewReply
        BY <1>1, <3>1, ReplySame
      <3> QED BY <3>1, <3>2, PulledQuietly
    <2> QED BY <1>4, <2>1, <2>2 DEF KernelEnds
  <1> QED BY <1>3, <1>4

(* Every step keeps the copy of a controller in agreement with the driver. *)
LEMMA StaysPulled ==
    ASSUME Controlled, Controlled', Orderly, Pulled, [Next]_vars
    PROVE  Pulled'
  BY PulledDriver, PulledGPU, PulledKernel DEF Next, System, Finished

(* In the beginning all controllers are idle. *)
LEMMA StartsPulled == Init => Pulled
  <1> SUFFICES ASSUME Init PROVE Pulled
    OBVIOUS
  <1>1. PMCTypeOK
    <2>1. <<>> \in Seq(Migration) /\ <<>> \in Seq(RemoteMsg) /\ <<>> \in Seq(MemOp)
      OBVIOUS
    <2>2. Len(<<>>) = 0
      OBVIOUS
    <2>3. mem \in [GPU -> [PullID -> Data]]
      BY DEF Init, PMCInit, Data
    <2> QED BY <2>1, <2>2, <2>3, PMCAssumption DEF Init, PMCInit, PMCTypeOK
  <1>2. AllOff
    BY DEF Init, PMCInit, AllOff, PMCOff
  <1>3. \A T \in GPU : ~Handler(T)
    BY DEF Init, PMCInit, Handler
  <1>4. \A T \in GPU, H \in GPU, P \in Page : ~OnItsWay(T, H, P)
    <2>1. OnePage = "nil"
      BY DEF Init, OnePage
    <2> QED BY <2>1, DriverAssumption DEF OnItsWay
  <1> QED BY <1>1, <1>2, <1>3, <1>4 DEF Pulled

(* The controllers copy the page the driver moves, and nothing else: an    *)
(* invariant of the driver, the command processors and the controllers.    *)
THEOREM PulledInvariant == Spec => []Pulled
  <1>1. Init => Pulled
    BY StartsPulled
  <1>2. Controlled /\ Controlled' /\ Orderly /\ Pulled /\ [Next]_vars => Pulled'
    BY StaysPulled
  <1>3. Spec => []Controlled
    BY DriverInvariant
  <1>4. Spec => []Orderly
    BY OrderlyInvariant
  <1> QED BY <1>1, <1>2, <1>3, <1>4, PTL DEF Spec

(* Every variable of the driver, the command processors, the controllers   *)
(* and the MMU keeps its type.                                             *)
THEOREM AlwaysTyped == Spec => []TypeOK
  <1>1. Controlled /\ Pulled => TypeOK
    BY DEF Controlled, Typed, Pulled, TypeOK
  <1> QED BY <1>1, DriverInvariant, PulledInvariant, PTL

(* There are finitely many chunks of a page. *)
LEMMA ChunksFinite ==
    ASSUME NEW P
    PROVE  IsFiniteSet(Places(P))
  <1>1. IsFiniteSet({P})
    BY FS_Singleton
  <1>2. NumChunks \in Int /\ 1 \in Int
    BY PMCAssumption
  <1>3. IsFiniteSet(Chunk)
    BY <1>2, FS_Interval DEF Chunk
  <1> QED BY <1>1, <1>3, FS_Product DEF Places

(* Data arrives only for a chunk that was asked for, and an acknowledged   *)
(* write only while writes are awaited: pmc.go's panics are not reached.   *)
LEMMA CopyAnswers ==
    ASSUME NEW T \in GPU, NEW H \in GPU, NEW P \in Page, PMCTypeOK, Copying(T, H, P)
    PROVE  PullsAnswered
  <1>1. /\ T # H /\ WantShape(T, H, P) /\ ReadShape(T, H, P) /\ ReplyShape(T, H, P) /\ WriteShape(T, H, P)
        /\ Bystanders(T, H) /\ Counted(T, H, P) /\ Numbered(T, H, P)
    BY CopyParts
  <1>2. ASSUME NEW g \in GPU, remotePort[g] # <<>>, Head(remotePort[g]).type = "data"
        PROVE  Head(remotePort[g]).id \in reqIDToWriteAddressMap[g]
    <2>1. g = T \/ g = H
      BY <1>1, <1>2 DEF Bystanders, PMCOff
    <2>2. g # H
      <3> SUFFICES ASSUME g = H PROVE FALSE
        OBVIOUS
      <3>1. PICK q \in Seq(PullMsg(T, H, P)) : q = remotePort[H]
        BY <1>1 DEF WantShape
      <3>2. Head(q) \in PullMsg(T, H, P)
        BY <1>2, <3>1
      <3> QED BY <1>2, <3>1, <3>2 DEF PullMsg
    <2>3. PICK q \in Seq(DataMsg(T, H, P)) : q = remotePort[T]
      BY <1>1 DEF ReplyShape
    <2>4. q # <<>> /\ Head(q) \in DataMsg(T, H, P)
      BY <1>2, <2>1, <2>2, <2>3
    <2>5. PICK id : id = Head(q).id
      OBVIOUS
    <2>6. id \in Places(P)
      BY <2>4, <2>5 DEF DataMsg, Current
    <2>7. Held(q, id) # 0
      <3>1. DataMsg(T, H, P) \subseteq Msg
        BY MsgSets
      <3>2. Held(Tail(q), id) \in Nat /\ Held(q, id) = Held(Tail(q), id) + One(Head(q).id = id)
        BY <2>4, <3>1, HeldTail
      <3> QED BY <2>5, <3>2 DEF One
    <2>8. Pulling(T, H, id) = 1
      <3>1. Pulling(T, H, id) \in {0, 1} /\ Wanting(T, H, id) \in {0, 1} /\ Reading(H, id) \in {0, 1}
            /\ Replying(T, H, id) \in {0, 1}
        BY <2>6, OncePulled
      <3>2. Held(toRspToAnotherPMC[H], id) \in Nat /\ Held(wire[H], id) \in Nat /\ Held(remotePort[T], id) \in Nat
        BY <1>1, CountsAreNat
      <3>3. Replying(T, H, id) # 0
        BY <2>3, <2>7, <3>2 DEF Replying
      <3> QED BY <3>1, <3>3 DEF Pulling
    <2> QED BY <1>1, <2>1, <2>2, <2>3, <2>5, <2>6, <2>8 DEF Numbered
  <1>3. numDataRspPendingForPageMigration[T] > 0
    <2>1. PICK S : S = { id \in Places(P) : Left(T, H, id) = 1 }
      OBVIOUS
    <2>2. IsFiniteSet(S)
      <3>1. IsFiniteSet(Places(P))
        BY ChunksFinite
      <3> QED BY <2>1, <3>1, FS_Subset
    <2>3. Cardinality(S) \in Nat
      BY <2>2, FS_CardinalityType
    <2> QED BY <1>1, <2>1, <2>3 DEF Numbered
  <1>4. ASSUME NEW g \in GPU, localMemPort[g] # <<>>, Head(localMemPort[g]).type = "write"
        PROVE  numDataRspPendingForPageMigration[g] > 0
    <2>1. g = T \/ g = H
      BY <1>1, <1>4 DEF Bystanders, PMCOff
    <2>2. g # H
      <3> SUFFICES ASSUME g = H PROVE FALSE
        OBVIOUS
      <3>1. PICK q \in Seq(ReadDone(H, P)) : q = localMemPort[H]
        BY <1>1 DEF ReadShape
      <3>2. Head(q) \in ReadDone(H, P)
        BY <1>4, <3>1
      <3> QED BY <1>4, <3>1, <3>2 DEF ReadDone, Current
    <2> QED BY <1>3, <2>1, <2>2
  <1> QED BY <1>2, <1>4 DEF PullsAnswered

(* The panics of pmc.go for data that no pull asked for and for a write    *)
(* too many are never reached, with any GPUs, pages and chunks.            *)
THEOREM AlwaysAnswered == Spec => []PullsAnswered
  <1>1. ASSUME Controlled, Pulled PROVE PullsAnswered
    <2>1. CASE AllOff
      BY <2>1 DEF AllOff, PMCOff, PullsAnswered
    <2>2. CASE ~AllOff
      <3>1. PICK T \in GPU, H \in GPU, P \in Page : Copying(T, H, P)
        BY <1>1, <2>2, AtWork
      <3> QED BY <1>1, <3>1, CopyAnswers DEF Pulled
    <2> QED BY <2>1, <2>2
  <1> QED BY <1>1, DriverInvariant, PulledInvariant, PTL

-----------------------------------------------------------------------------
(* Who holds the last value written to a page.                             *)

(* The GPU the page comes from while it moves, then the one it is on. *)
Keeper(p) == IF p \in Moving THEN req.host ELSE pageTable[p]

(* Pages are intact when the GPU that keeps a page holds every chunk's last value. *)
LEMMA IntactIs == PageIntact <=> \A id \in PullID : Holds(Keeper(id[1]), id) = value[id]
  BY DEF PageIntact, Keeper, req

(* The same after a step. *)
LEMMA IntactIsNext == PageIntact' <=> \A id \in PullID : Holds(Keeper(id[1]), id)' = value'[id]
  <1>1. PageIntact' <=> (\A id \in PullID : Holds(Keeper(id[1]), id) = value[id])'
    BY IntactIs, PTL
  <1> QED BY <1>1

(* A chunk has the page it belongs to. *)
LEMMA PageOf == \A id \in PullID : id[1] \in Page /\ id \in Places(id[1])
  BY DEF PullID, Places

(* The pages that move, in the names of the proofs. *)
LEMMA MovingAre == \A p : p \in Moving <=> p \in Page /\ (OnePage = p \/ \E i \in DOMAIN ToMove : ToMove[i].page = p)
  BY DEF Moving, OnePage, ToMove

(* The pages that move after a step. *)
LEMMA MovingAreNext ==
    \A p : p \in Moving' <=> p \in Page /\ (OnePage' = p \/ \E i \in DOMAIN ToMove' : ToMove'[i].page = p)
  BY DEF Moving, OnePage, ToMove

(* The same GPU keeps every page, if the driver does nothing about pages. *)
LEMMA KeeperSame ==
    ASSUME UNCHANGED <<pageTable, req, OnePage, ToMove>>
    PROVE  \A p : Keeper(p)' = Keeper(p)
  BY MovingAre, MovingAreNext DEF Keeper

(* Nothing but the page that leaves a controller leaves the pages that move. *)
LEMMA LandingMoves ==
    ASSUME Landing
    PROVE  \A p \in Page : (p \in Moving' => p \in Moving) /\ (p \in Moving /\ p # OnePage => p \in Moving')
  BY MovingAre, MovingAreNext, DriverAssumption DEF Landing

(* With the last answer no page moves any more. *)
LEMMA MovedMoves ==
    ASSUME Moved
    PROVE  \A p \in Page : p \notin Moving' /\ (p \in Moving => p = OnePage)
  <1>1. DOMAIN ToMove = {} /\ DOMAIN ToMove' = {} /\ OnePage' = "nil"
    BY DEF Moved
  <1> QED BY <1>1, MovingAre, MovingAreNext, DriverAssumption

(* A page loaded to a controller goes on moving. *)
LEMMA LoadingMoves ==
    ASSUME Controlled, Loading
    PROVE  \A p \in Page : p \in Moving' <=> p \in Moving
  <1>1. PICK S : S = MoveMsg(req)
    OBVIOUS
  <1>2. PICK q \in Seq(S) : q = ToMove
    BY <1>1, LoadingIs
  <1>3. q # <<>> /\ OnePage = "nil" /\ OnePage' = Head(q).page /\ ToMove' = Tail(q)
    BY <1>2 DEF Loading
  <1>4. Head(q) = q[1] /\ Len(q) \in Nat \ {0} /\ DOMAIN q = 1..Len(q)
        /\ DOMAIN Tail(q) = 1..(Len(q) - 1) /\ \A i \in 1..(Len(q) - 1) : Tail(q)[i] = q[i + 1]
    BY <1>3
  <1>5. ASSUME NEW p, \E i \in DOMAIN q : q[i].page = p
        PROVE  Head(q).page = p \/ \E i \in DOMAIN Tail(q) : Tail(q)[i].page = p
    <2>1. PICK i \in 1..Len(q) : q[i].page = p
      BY <1>4, <1>5
    <2>2. CASE i = 1
      BY <1>4, <2>1, <2>2
    <2>3. CASE i # 1
      <3>1. i - 1 \in 1..(Len(q) - 1) /\ (i - 1) + 1 = i
        BY <1>4, <2>3
      <3>2. PICK j \in 1..(Len(q) - 1) : j + 1 = i
        BY <3>1
      <3> QED BY <1>4, <2>1, <3>2
    <2> QED BY <2>2, <2>3
  <1>6. ASSUME NEW p, Head(q).page = p \/ \E i \in DOMAIN Tail(q) : Tail(q)[i].page = p
        PROVE  \E i \in DOMAIN q : q[i].page = p
    <2>1. 1 \in DOMAIN q /\ \A i \in 1..(Len(q) - 1) : i + 1 \in DOMAIN q
      BY <1>4
    <2> QED BY <1>4, <1>6, <2>1
  <1>7. ASSUME NEW p \in Page PROVE p \in Moving' <=> p \in Moving
    <2>1. p \in Moving <=> \E i \in DOMAIN q : q[i].page = p
      BY <1>2, <1>3, MovingAre, DriverAssumption
    <2>2. p \in Moving' <=> Head(q).page = p \/ \E i \in DOMAIN Tail(q) : Tail(q)[i].page = p
      BY <1>3, MovingAreNext
    <2> QED BY <1>5, <1>6, <2>1, <2>2
  <1> QED BY <1>7

(* After a shootdown all pages of the request move. *)
LEMMA ShotMoves ==
    ASSUME Controlled, Controlled', Shot
    PROVE  \A p \in Page : p \notin Moving /\ (p \in Moving' <=> p \in req.pages)
  <1>1. Phase = "shootdown" /\ Phase' = "migrate" /\ req' = req /\ ToMove' = Migrations(req) /\ OnePage' = "nil"
    BY DEF Shot
  <1>2. Moving = {}
    BY <1>1, MovingIs
  <1>3. PICK r \in PageMigrationReq : r = req
    <2>1. Handling
      BY <1>1, PhaseIs DEF PhaseFacts
    <2> QED BY <2>1 DEF Controlled, Driven, Phased, Legal
  <1>4. IsFiniteSet(r.pages) /\ r.pages \subseteq Page
    BY DriverAssumption, FS_Subset DEF PageMigrationReq
  <1>5. PICK f : f = SetToSeq(r.pages)
    OBVIOUS
  <1>6. PICK n : n = Cardinality(r.pages)
    OBVIOUS
  <1>7. f \in [1..n -> r.pages] /\ \A x \in r.pages : \E i \in 1..n : f[i] = x
    BY <1>4, <1>5, <1>6, SetToSeqAt
  <1>8. ToMove' = [i \in DOMAIN f |-> [type |-> "migrate", gpu |-> r.to, page |-> f[i], from |-> r.host]]
    BY <1>1, <1>3, <1>5 DEF Migrations
  <1>9. DOMAIN f = 1..n
    BY <1>7
  <1>10. ASSUME NEW p \in Page PROVE p \in Moving' <=> p \in req.pages
    <2>1. p \in Moving' <=> \E i \in 1..n : f[i] = p
      <3>1. DOMAIN ToMove' = 1..n /\ \A i \in 1..n : ToMove'[i].page = f[i]
        BY <1>8, <1>9
      <3>2. OnePage' # p
        BY <1>1, DriverAssumption
      <3> QED BY <3>1, <3>2, MovingAreNext
    <2> QED BY <1>3, <1>7, <2>1
  <1> QED BY <1>2, <1>10

(* The driver takes the page for moved when the controller's answer is there: *)
(* the page has arrived.                                                      *)
LEMMA AnswerTaken ==
    ASSUME Controlled, DriverStep, OnePage # "nil", OnePage' = "nil"
    PROVE  \E g \in GPU : ReplyOut(g)
  <1>1. Typed /\ driver \in DriverState
    BY DEF Controlled, Typed
  <1>2. \E g \in GPU : ProcessPageMigrationRspFromCP(g)
    BY <1>1 DEF OnePage, DriverStep, DriverState, SendToGPUs, SendToMMU, SendMigrationReqToCP, ProcessCommandReturn,
     ProcessRDMADrainRsp, ProcessShootdownCompleteRsp, HandleGPURestartRsp,
     ProcessRDMARestartRspToDriver, ProcessOneCommand, ParseFromMMU
  <1>3. PICK g \in GPU : Return(g, "migrate")
    BY <1>2 DEF ProcessPageMigrationRspFromCP
  <1>4. After("migrate", g) # 0
    <2>1. uplink[g] # <<>> /\ Head(uplink[g]) = "migrate" /\ uplink' = [uplink EXCEPT ![g] = Tail(@)]
      BY <1>3 DEF Return
    <2>2. After("migrate", g) \in Nat \ {0}
      BY <1>1, <2>1, AfterTaken
    <2> QED BY <2>2
  <1> QED BY <1>3, <1>4 DEF ReplyOut

(* When the controller has answered, both GPUs hold the page. *)
LEMMA BothHold ==
    ASSUME Controlled, Orderly, Pulled, CleanWhenOff, NEW g \in GPU, ReplyOut(g)
    PROVE  /\ Phase = "migrate" /\ OnePage \in Page /\ pageTable[OnePage] = req.to
           /\ \A id \in Places(OnePage) : Holds(req.to, id) = Holds(req.host, id)
  <1>1. OnePage # "nil" /\ g = req.to
    BY Alone
  <1>2. /\ Phase = "migrate" /\ req \in PageMigrationReq /\ req.to # req.host
        /\ req.to \in GPU /\ req.host \in GPU /\ OnePage \in Page /\ OnePage \in req.pages
    BY <1>1, MoveAt
  <1>3. PICK T \in GPU, H \in GPU, P \in Page : OnItsWay(T, H, P)
    BY <1>2 DEF OnItsWay
  <1>4. T = g /\ H = req.host /\ P = OnePage
    BY <1>1, <1>3 DEF OnItsWay
  <1>5. Arrived(T, H, P)
    BY <1>3, <1>4 DEF Pulled
  <1>6. "l2" \in paused[T] /\ "l2" \in paused[H]
    <2>1. Legal(req)
      <3>1. Handling
        BY <1>2, PhaseIs DEF PhaseFacts
      <3> QED BY <3>1 DEF Controlled, Driven, Phased
    <2>2. T \in req.accessing /\ H \in req.accessing
      BY <1>1, <1>4, <2>1 DEF Legal
    <2>3. \A h \in req.accessing : Halted(h)
      BY <1>2, MigratingHalts
    <2>4. \A h \in req.accessing : Cache \subseteq paused[h]
      BY <1>2, <2>3, Isolated DEF Orderly
    <2>5. "l2" \in Cache
      BY PartsApart
    <2> QED BY <2>2, <2>4, <2>5
  <1>7. \A id \in Places(P) : id \in PullID
    BY DEF Places, PullID
  <1>8. \A id \in Places(P) : Holds(T, id) = Holds(H, id)
    BY <1>5, <1>6, <1>7 DEF CleanWhenOff, Arrived, Holds
  <1>9. pageTable[OnePage] = req.to
    BY <1>2 DEF Controlled, Driven, Paging
  <1> QED BY <1>1, <1>2, <1>4, <1>8, <1>9

-----------------------------------------------------------------------------
(* No write is lost.                                                       *)

(* A step of the driver changes no data. *)
LEMMA DriverHolds ==
    ASSUME GPUsKept
    PROVE  value' = value /\ mem' = mem /\ dirty' = dirty
  BY DEF GPUsKept, accessVars, pmcVars

(* What is held where, after a step that changes no data. *)
LEMMA IntactAt ==
    ASSUME PageIntact, value' = value, mem' = mem, dirty' = dirty,
           \A id \in PullID : Holds(Keeper(id[1])', id) = Holds(Keeper(id[1]), id)
    PROVE  PageIntact'
  <1>1. \A g, id : Holds(g, id)' = Holds(g, id)
    BY DEF Holds
  <1>2. \A id \in PullID : Holds(Keeper(id[1]), id)' = Holds(Keeper(id[1])', id)
    BY DEF Holds
  <1> QED BY <1>2, IntactIs, IntactIsNext

(* The driver moves a page from one keeper to another that holds the same. *)
LEMMA IntactDriver ==
    ASSUME Controlled, Controlled', Orderly, Pulled, CleanWhenOff, PageIntact, DriverStep
    PROVE  PageIntact'
  <1>1. value' = value /\ mem' = mem /\ dirty' = dirty /\ GPUsKept
    BY DriverHolds, DriverStepKeeps
  <1>2. CASE \A p \in Page : Keeper(p)' = Keeper(p)
    BY <1>1, <1>2, IntactAt, PageOf
  <1>3. CASE Keeps
    BY <1>2, <1>3, KeeperSame DEF Keeps
  <1>4. CASE Over \/ Beginning
    <2>1. OnePage' = OnePage /\ ToMove' = ToMove /\ pageTable' = pageTable /\ Phase # "migrate"
      BY <1>4 DEF Over, Beginning
    <2>2. Moving = {}
      BY <2>1, MovingIs
    <2>3. \A p \in Page : p \notin Moving'
      BY <2>1, <2>2, MovingAre, MovingAreNext
    <2> QED BY <1>2, <2>1, <2>2, <2>3 DEF Keeper
  <1>5. CASE Loading
    <2>1. req' = req /\ pageTable' = pageTable
      BY <1>5 DEF Loading
    <2> QED BY <1>2, <1>5, <2>1, LoadingMoves DEF Keeper
  <1>6. CASE Shot
    <2>1. Phase = "shootdown" /\ req' = req
          /\ pageTable' = [p \in Page |-> IF p \in req.pages THEN req.to ELSE pageTable[p]]
      BY <1>6 DEF Shot
    <2>2. \A p \in req.pages : pageTable[p] = req.host
      <3>1. mmuWaits # NoReq /\ req = mmuWaits
        BY <2>1, PhaseAsks DEF Controlled
      <3> QED BY <2>1, <3>1 DEF Orderly, Apart, AtHost
    <2>3. \A p \in Page : p \notin Moving /\ (p \in Moving' <=> p \in req.pages)
      BY <1>6, ShotMoves
    <2>4. ASSUME NEW p \in Page PROVE Keeper(p)' = Keeper(p)
      BY <2>1, <2>2, <2>3 DEF Keeper
    <2> QED BY <1>2, <2>4
  <1>7. CASE Landing \/ Moved
    <2>1. OnePage # "nil" /\ OnePage' = "nil" /\ req' = req /\ pageTable' = pageTable
      BY <1>7 DEF Landing, Moved
    <2>2. PICK g \in GPU : ReplyOut(g)
      BY <2>1, AnswerTaken
    <2>3. /\ Phase = "migrate" /\ OnePage \in Page /\ pageTable[OnePage] = req.to
          /\ \A id \in Places(OnePage) : Holds(req.to, id) = Holds(req.host, id)
      BY <2>2, BothHold
    <2>4. \A p \in Page : (p \in Moving' => p \in Moving) /\ (p \in Moving /\ p # OnePage => p \in Moving')
      BY <1>7, LandingMoves, MovedMoves
    <2>5. \A p \in Page : Keeper(p)' = Keeper(p) \/ (p = OnePage /\ Keeper(p) = req.host /\ Keeper(p)' = req.to)
      BY <2>1, <2>3, <2>4 DEF Keeper
    <2>6. \A id \in PullID : Holds(Keeper(id[1])', id) = Holds(Keeper(id[1]), id)
      <3>1. ASSUME NEW id \in PullID PROVE Holds(Keeper(id[1])', id) = Holds(Keeper(id[1]), id)
        <4>1. id[1] \in Page /\ id \in Places(id[1])
          BY PageOf
        <4>2. CASE Keeper(id[1])' = Keeper(id[1])
          BY <4>2
        <4>3. CASE id[1] = OnePage /\ Keeper(id[1]) = req.host /\ Keeper(id[1])' = req.to
          BY <2>3, <4>1, <4>3
        <4> QED BY <2>5, <4>1, <4>2, <4>3
      <3> QED BY <3>1
    <2> QED BY <1>1, <2>6, IntactAt
  <1>8. Turns
    BY DriverTurns
  <1> QED BY <1>3, <1>4, <1>5, <1>6, <1>7, <1>8 DEF Turns, Holding, Forwarding, Ordering, Drained, Restarted

(* The keeper of every page is a GPU. *)
LEMMA KeeperIs ==
    ASSUME Controlled, NEW p \in Page
    PROVE  Keeper(p) \in GPU
  <1>1. pageTable[p] \in GPU
    BY DEF Controlled, Typed
  <1>2. ASSUME p \in Moving PROVE req.host \in GPU
    <2>1. Phase = "migrate"
      BY <1>2, MovingIs
    <2>2. Handling
      BY <2>1, PhaseIs DEF PhaseFacts
    <2> QED BY <2>2 DEF Controlled, Driven, Phased, Legal, PageMigrationReq
  <1> QED BY <1>1, <1>2 DEF Keeper

(* The GPUs hold what they held. *)
LEMMA IntactKept ==
    ASSUME Controlled, PageIntact, driver' = driver, pageTable' = pageTable, value' = value,
           \A g \in GPU, id \in PullID : Holds(g, id)' = Holds(g, id)
    PROVE  PageIntact'
  <1>1. \A p : Keeper(p)' = Keeper(p)
    BY KeeperSame DEF req, OnePage, ToMove
  <1>2. ASSUME NEW id \in PullID PROVE Holds(Keeper(id[1]), id)' = value'[id]
    <2>1. PICK k \in GPU : k = Keeper(id[1])
      BY PageOf, KeeperIs
    <2>2. Holds(k, id) = value[id]
      BY <2>1, IntactIs
    <2>3. k = Keeper(id[1])'
      BY <1>1, <2>1
    <2>4. Holds(k, id)' = Holds(k, id)
      OBVIOUS
    <2>5. Holds(Keeper(id[1]), id)' = Holds(k, id)'
      BY <2>3 DEF Holds
    <2> QED BY <2>2, <2>4, <2>5
  <1> QED BY <1>2, IntactIsNext

-----------------------------------------------------------------------------
(* Data that moves.                                                        *)

(* A controller writes the page that moves, to the GPU it moves to. *)
LEMMA WritesArrive ==
    ASSUME Controlled, Pulled, NEW g \in GPU, PMCStep(g), PMCTypeOK'
    PROVE  \/ mem' = mem
           \/ \E T \in GPU, H \in GPU, P \in Page : OnItsWay(T, H, P) /\ T # H /\ OnlyArrives(T, P)
  <1>1. CASE MemServes(g)
    <2>1. PICK op \in memOps[g] :
          IF op.type = "read" THEN UNCHANGED mem ELSE mem' = [mem EXCEPT ![g][op.id] = op.data]
      BY <1>1 DEF MemServes
    <2>2. memOps[g] # {}
      BY <2>1
    <2>3. ~AllOff
      BY <2>2 DEF AllOff, PMCOff
    <2>4. PICK T \in GPU, H \in GPU, P \in Page : OnItsWay(T, H, P) /\ Copying(T, H, P)
      BY <2>3, AtWork
    <2>5. T # H /\ ReadShape(T, H, P) /\ WriteShape(T, H, P) /\ Bystanders(T, H)
      BY <2>4, CopyParts
    <2>6. g = T \/ g = H
      BY <2>2, <2>5 DEF Bystanders, PMCOff
    <2>7. CASE g = H
      <3>1. op \in ReadOp(P)
        BY <2>1, <2>5, <2>7 DEF ReadShape
      <3>2. op.type = "read"
        BY <3>1 DEF ReadOp
      <3> QED BY <2>1, <3>2
    <2>8. CASE g = T
      <3>1. op \in WriteOp(H, P)
        BY <2>1, <2>5, <2>8 DEF WriteShape
      <3>2. op.type = "write" /\ op.id \in Places(P)
        BY <3>1 DEF WriteOp, Current
      <3>3. PICK i, d : i = op.id /\ d = op.data
        OBVIOUS
      <3>4. mem' = [mem EXCEPT ![g][i] = d]
        BY <2>1, <3>2, <3>3
      <3>5. \A h \in GPU : \A id \in PullID : mem'[h][id] # mem[h][id] => h = g /\ id = i
        <4>1. mem \in [GPU -> [PullID -> Data]]
          BY DEF Pulled, PMCTypeOK
        <4> QED BY <3>4, <4>1
      <3>6. mem' \in [GPU -> [PullID -> Data]]
        BY DEF PMCTypeOK
      <3>7. OnlyArrives(T, P)
        BY <2>8, <3>2, <3>3, <3>5, <3>6 DEF OnlyArrives
      <3> QED BY <2>4, <2>5, <3>7
    <2> QED BY <2>6, <2>7, <2>8
  <1>2. CASE ~MemServes(g)
    BY <1>2 DEF PMCStep, Deliver, SendMigrationReqToAnotherPMC, SendDataReadyRspToRequestingPMC,
     SendReadReqLocalMemPort, SendWriteReqLocalMemPort, ProcessPageMigrationReqFromCtrlPort, HandleDataPullReq,
     HandleDataPullRsp, HandleDataReadyRspFromMemCtrl, HandleWriteDoneRspFromMemCtrl
  <1> QED BY <1>1, <1>2

(* The page that moves is kept by the GPU it comes from. *)
LEMMA IntactArrives ==
    ASSUME Controlled, PageIntact, driver' = driver, pageTable' = pageTable, value' = value, dirty' = dirty,
           NEW T \in GPU, NEW H \in GPU, NEW P \in Page, OnItsWay(T, H, P), T # H, OnlyArrives(T, P)
    PROVE  PageIntact'
  <1>1. \A p : Keeper(p)' = Keeper(p)
    BY KeeperSame DEF req, OnePage, ToMove
  <1>2. P \in Moving /\ Keeper(P) = H
    BY MovingAre DEF OnItsWay, Keeper
  <1>3. ASSUME NEW id \in PullID PROVE Holds(Keeper(id[1]), id)' = value'[id]
    <2>1. PICK k \in GPU : k = Keeper(id[1])
      BY PageOf, KeeperIs
    <2>2. Holds(k, id) = value[id]
      BY <2>1, IntactIs
    <2>3. k = Keeper(id[1])'
      BY <1>1, <2>1
    <2>4. mem'[k][id] = mem[k][id]
      <3> SUFFICES ASSUME mem'[k][id] # mem[k][id] PROVE FALSE
        OBVIOUS
      <3>1. k = T /\ id \in Places(P)
        BY DEF OnlyArrives
      <3>2. id[1] = P
        BY <3>1 DEF Places
      <3> QED BY <1>2, <2>1, <3>1, <3>2
    <2>5. Holds(k, id)' = Holds(k, id)
      BY <2>4 DEF Holds
    <2>6. Holds(Keeper(id[1]), id)' = Holds(k, id)'
      BY <2>3 DEF Holds
    <2> QED BY <2>2, <2>5, <2>6
  <1> QED BY <1>3, IntactIsNext

(* What an L2 cache writes back stays what its GPU holds. *)
LEMMA FlushHolds ==
    ASSUME Typed, PMCTypeOK, NEW g \in GPU, L2Flushes(g)
    PROVE  \A h \in GPU, id \in PullID : Holds(h, id)' = Holds(h, id)
  <1>1. /\ mem' = [mem EXCEPT ![g] = [id \in PullID |-> IF dirty[g][id] = Clean THEN mem[g][id] ELSE dirty[g][id]]]
        /\ dirty' = [dirty EXCEPT ![g] = [id \in PullID |-> Clean]]
    BY DEF L2Flushes
  <1>2. PICK D : D = Data
    OBVIOUS
  <1>3. mem \in [GPU -> [PullID -> D]] /\ dirty \in [GPU -> [PullID -> D \cup {Clean}]]
    BY <1>2 DEF PMCTypeOK, Typed, CPTypeOK
  <1>4. ASSUME NEW h \in GPU, NEW id \in PullID, h # g PROVE Holds(h, id)' = Holds(h, id)
    <2>1. mem'[h] = mem[h] /\ dirty'[h] = dirty[h]
      BY <1>1, <1>3, <1>4
    <2> QED BY <2>1 DEF Holds
  <1>5. ASSUME NEW id \in PullID PROVE Holds(g, id)' = Holds(g, id)
    <2>1. dirty'[g][id] = Clean /\ mem'[g][id] = IF dirty[g][id] = Clean THEN mem[g][id] ELSE dirty[g][id]
      BY <1>1, <1>3
    <2> QED BY <2>1 DEF Holds
  <1> QED BY <1>4, <1>5

(* Every step of a GPU leaves the data of every page where it is looked for. *)
LEMMA IntactGPU ==
    ASSUME Controlled, Pulled, PageIntact, NEW g \in GPU, GPUStep(g)
    PROVE  PageIntact'
  <1>1. Typed /\ PMCTypeOK /\ PMCTypeOK'
    BY GPUStepPMC DEF Controlled, Pulled
  <1>2. driver' = driver /\ pageTable' = pageTable /\ value' = value
    BY DEF GPUStep, ComposedUnchanged, accessVars, tableVars, RDMAPauses, RDMADrained, RDMARestarts, DMACopies
  <1>3. CASE mem' = mem /\ dirty' = dirty
    <2>1. \A h \in GPU, id \in PullID : Holds(h, id)' = Holds(h, id)
      BY <1>3 DEF Holds
    <2> QED BY <1>2, <2>1, IntactKept
  <1>4. CASE PMCStep(g) /\ UNCHANGED cpVars
    <2>1. dirty' = dirty
      BY <1>4 DEF cpVars, gpuVars
    <2> QED BY <1>1, <1>2, <1>3, <1>4, <2>1, WritesArrive, IntactArrives
  <1>5. CASE CPStep(g)
    <2>1. dirty' = dirty
      BY <1>1, <1>5, CPStepDrops
    <2>2. CASE SendToPMC(g)
      BY <1>3, <2>1, <2>2 DEF SendToPMC
    <2>3. CASE ProcessReqFromDriver(g) \/ ProcessRspFromInternal(g)
      BY <1>3, <2>1, <2>3, CPLeaves DEF pmcVars
    <2> QED BY <1>5, <2>2, <2>3 DEF CPStep
  <1>6. CASE PMCAnswers(g)
    BY <1>3, <1>6 DEF PMCAnswers, SendMigrationCompleteRspToCtrlPort, gpuVars
  <1>7. CASE PartStep(g)
    <2>1. CASE L2Flushes(g)
      BY <1>1, <1>2, <2>1, FlushHolds, IntactKept
    <2>2. CASE ~L2Flushes(g)
      BY <1>1, <1>3, <1>7, <2>2, PartDirty
    <2> QED BY <2>1, <2>2
  <1>8. CASE RDMAPauses(g) \/ RDMADrained(g) \/ RDMARestarts(g) \/ DMACopies(g)
    BY <1>1, <1>3, <1>8, RDMAStepDrops DEF pmcVars
  <1> QED BY <1>4, <1>5, <1>6, <1>7, <1>8 DEF GPUStep

(* A write that reaches a page does so on the GPU that keeps it; while the *)
(* page moves none reaches its old or its new frame.                       *)
LEMMA IntactWrite ==
    ASSUME Controlled, MigrationQuiesced, PageIntact, NEW a \in Access, L2Writes(a),
           driver' = driver, pageTable' = pageTable, mem' = mem
    PROVE  PageIntact'
  <1>1. \A p : Keeper(p)' = Keeper(p)
    BY KeeperSame DEF req, OnePage, ToMove
  <1>2. Typed
    BY DEF Controlled
  <1>3. ASSUME NEW p \in Moving PROVE a.owner # req.host /\ pageTable[p] = req.to /\ a.owner # req.to
    <2>1. Phase = "migrate" /\ p \in req.pages
      BY MovingIs
    <2>2. Handling
      BY <2>1, PhaseIs DEF PhaseFacts, Controlled
    <2>3. Legal(req)
      BY <2>2 DEF Controlled, Driven, Phased
    <2>4. req.host \in req.accessing /\ req.to \in req.accessing
      BY <2>3 DEF Legal
    <2>5. \A g \in req.accessing : "l2" \in paused[g]
      <3>1. "l2" \in Cache
        BY PartsApart
      <3> QED BY <3>1 DEF MigrationQuiesced, req
    <2>6. pageTable[p] = req.to
      BY <2>1 DEF Controlled, Driven, Paging
    <2> QED BY <1>2, <2>4, <2>5, <2>6, L2Writing
  <1>4. ASSUME NEW id \in PullID PROVE Holds(Keeper(id[1]), id)' = value'[id]
    <2>1. PICK k \in GPU : k = Keeper(id[1])
      BY PageOf, KeeperIs
    <2>2. Holds(k, id) = value[id]
      BY <2>1, IntactIs
    <2>3. k = Keeper(id[1])'
      BY <1>1, <2>1
    <2>4. \/ dirty'[k][id] = dirty[k][id] /\ value'[id] = value[id]
          \/ dirty'[k][id] = value'[id] /\ value'[id] # Clean
      <3>1. CASE id # a.id
        BY <1>2, <3>1, L2Writing
      <3>2. CASE id = a.id /\ id[1] \in Moving
        <4>1. k # a.owner /\ a.owner # pageTable[a.id[1]]
          BY <1>3, <2>1, <3>2 DEF Keeper
        <4> QED BY <1>2, <4>1, L2Writing
      <3>3. CASE id = a.id /\ id[1] \notin Moving
        <4>1. k = pageTable[a.id[1]]
          BY <2>1, <3>3 DEF Keeper
        <4>2. CASE a.owner = k
          BY <1>2, <3>3, <4>1, <4>2, L2Writing
        <4>3. CASE a.owner # k
          BY <1>2, <4>1, <4>3, L2Writing
        <4> QED BY <4>2, <4>3
      <3> QED BY <3>1, <3>2, <3>3
    <2>5. Holds(k, id)' = value'[id]
      BY <2>2, <2>4 DEF Holds
    <2>6. Holds(Keeper(id[1]), id)' = Holds(k, id)'
      BY <2>3 DEF Holds
    <2> QED BY <2>5, <2>6
  <1> QED BY <1>4, IntactIsNext

(* A step of a kernel writes to a page that stays, or writes nothing. *)
LEMMA IntactKernel ==
    ASSUME Controlled, Orderly, PageIntact, Kernels \/ (\E g \in GPU : KernelEnds(g)) \/ UNCHANGED vars
    PROVE  PageIntact'
  <1>1. inflight \in [GPU -> Access \cup {NoAccess}] /\ rdmaOut \in [GPU -> Access \cup {NoAccess}]
    BY DEF Controlled, Typed
  <1>2. MigrationQuiesced
    BY QuiescedIs DEF Orderly
  <1>3. CASE driver' = driver /\ pageTable' = pageTable /\ value' = value /\ mem' = mem /\ dirty' = dirty
    <2>1. \A h \in GPU, id \in PullID : Holds(h, id)' = Holds(h, id)
      BY <1>3 DEF Holds
    <2> QED BY <1>3, <2>1, IntactKept
  <1>4. CASE Kernels \/ UNCHANGED vars
    BY <1>3, <1>4 DEF Kernels, Translate, MMURequests, vars, cpVars, gpuVars, accessVars, tableVars, pmcVars
  <1>5. ASSUME NEW g \in GPU, LocalWrite(g) PROVE PageIntact'
    <2>1. PICK a \in Access : a = inflight[g]
      BY <1>1, <1>5 DEF LocalWrite
    <2>2. L2Writes(a) /\ driver' = driver /\ pageTable' = pageTable /\ mem' = mem
      BY <1>5, <2>1 DEF LocalWrite, pmcVars, tableVars
    <2> QED BY <1>2, <2>2, IntactWrite
  <1>6. ASSUME NEW g \in GPU, RemoteWrite(g) PROVE PageIntact'
    <2>1. PICK a \in Access : a = rdmaOut[g]
      BY <1>1, <1>6 DEF RemoteWrite
    <2>2. L2Writes(a) /\ driver' = driver /\ pageTable' = pageTable /\ mem' = mem
      BY <1>6, <2>1 DEF RemoteWrite, pmcVars, tableVars
    <2> QED BY <1>2, <2>2, IntactWrite
  <1>7. ASSUME NEW g \in GPU, RemoteRequest(g) \/ KernelDone(g) PROVE PageIntact'
    BY <1>3, <1>7 DEF RemoteRequest, KernelDone, cpVars, gpuVars, accessVars, tableVars, pmcVars
  <1> QED BY <1>4, <1>5, <1>6, <1>7 DEF KernelEnds

-----------------------------------------------------------------------------
(* No write to a page is lost: the invariant.                              *)

(* A stopped L2 cache is clean, the controllers copy the page that moves,  *)
(* and pages are intact.                                                   *)
Sound == CleanWhenOff /\ Pulled /\ PageIntact

(* Every step keeps the pages intact. *)
LEMMA StaysIntact ==
    ASSUME Controlled, Controlled', Orderly, Sound, [Next]_vars
    PROVE  PageIntact'
  BY IntactDriver, IntactGPU, IntactKernel DEF Sound, Next, System, Finished

(* In the beginning nothing is written, translated or under way. *)
LEMMA StartsSound == Init => Sound
  <1> SUFFICES ASSUME Init PROVE Sound
    OBVIOUS
  <1>1. CleanWhenOff
    BY DEF Init, CPInit, CleanWhenOff
  <1>2. Pulled
    BY StartsPulled
  <1>3. \A p \in Page : p \notin Moving
    <2>1. OnePage = "nil" /\ ToMove = <<>>
      BY DEF Init, OnePage, ToMove
    <2> QED BY <2>1, MovingAre, DriverAssumption
  <1>4. \A g \in GPU, id \in PullID : Holds(g, id) = value[id]
    BY DEF Init, CPInit, PMCInit, Holds
  <1>5. \A p \in Page : pageTable[p] \in GPU
    BY DriverAssumption DEF Init
  <1>6. PageIntact
    BY <1>3, <1>4, <1>5, IntactIs, PageOf DEF Keeper
  <1> QED BY <1>1, <1>2, <1>6 DEF Sound

(* Stopped caches, copies under way and pages agree in every reachable state: *)
(* what the proof of PageIntact carries from step to step.                    *)
THEOREM SoundInvariant == Spec => []Sound
  <1>1. Controlled /\ Controlled' /\ Orderly /\ Sound /\ [Next]_vars => Sound'
    BY StaysClean, StaysPulled, StaysIntact DEF Sound
  <1> QED BY <1>1, StartsSound, DriverInvariant, OrderlyInvariant, PTL DEF Spec

(* No write that reaches a page is lost in a migration: the stops of the   *)
(* shootdown, the pulls of pmc.go and the flushes of the L2 caches leave   *)
(* the last value written where the page table, or the request while the   *)
(* page moves, says it is, and what kernels write through old translations *)
(* stays out of the page.                                                  *)
THEOREM PagesAlwaysIntact == Spec => []PageIntact
  <1>1. Sound => PageIntact
    BY DEF Sound
  <1> QED BY <1>1, SoundInvariant, PTL

-----------------------------------------------------------------------------
(* Copies come after flushes.                                              *)

AllClean == \A g \in GPU, id \in PullID : dirty[g][id] = Clean

(* A flush is ahead of every copy; there is one between a kernel and a copy. *)
FlushedFirst(q) == \A j \in DOMAIN q : q[j].type = "copy" => \E i \in 1..(j - 1) : q[i].type = "flush"

FlushBetween(q) ==
    \A i, j \in DOMAIN q :
        i < j /\ q[i].type = "launch" /\ q[j].type = "copy" => \E f \in i..j : q[f].type = "flush"

(* While a flush runs, a GPU with dirty lines has not got to flushing its L2 cache. *)
FlushWaits ==
    isRunning /\ Head(queue).type = "flush" =>
        \A g \in GPU : (\E id \in PullID : dirty[g][id] # Clean)
                            => Before("flush", g) # 0 \/ toPart[g]["l2"] = <<"flush">>

Fresh == (AllClean \/ FlushedFirst(queue)) /\ FlushBetween(queue) /\ FlushWaits

(* Behind a kernel at the head of the queue, copies have a flush ahead. *)
LEMMA LaunchFirst ==
    ASSUME NEW S, NEW q \in Seq(S), q # <<>>, Head(q).type = "launch", FlushBetween(q)
    PROVE  FlushedFirst(q)
  <1>1. 1 \in DOMAIN q /\ q[1].type = "launch" /\ DOMAIN q = 1..Len(q) /\ Len(q) \in Nat
    OBVIOUS
  <1>2. ASSUME NEW j \in DOMAIN q, q[j].type = "copy" PROVE \E i \in 1..(j - 1) : q[i].type = "flush"
    <2>1. j \in Nat /\ 1 < j
      BY <1>1, <1>2
    <2>2. PICK f \in 1..j : q[f].type = "flush"
      BY <1>1, <1>2, <2>1 DEF FlushBetween
    <2>3. f # j
      BY <1>2, <2>2
    <2>4. f \in 1..(j - 1)
      BY <2>1, <2>3
    <2> QED BY <2>2, <2>4
  <1> QED BY <1>2 DEF FlushedFirst

(* The rest of a queue. *)
LEMMA RestOf ==
    ASSUME NEW S, NEW q \in Seq(S), q # <<>>
    PROVE  /\ Len(q) \in Nat /\ DOMAIN q = 1..Len(q) /\ DOMAIN Tail(q) = 1..(Len(q) - 1)
           /\ \A i \in 1..(Len(q) - 1) : Tail(q)[i] = q[i + 1] /\ i + 1 \in 1..Len(q)
  OBVIOUS

(* The rest of a queue has its flushes between kernels and copies. *)
LEMMA BetweenRest ==
    ASSUME NEW S, NEW q \in Seq(S), q # <<>>, FlushBetween(q)
    PROVE  FlushBetween(Tail(q))
  <1>1. PICK r : r = Tail(q)
    OBVIOUS
  <1>2. PICK n \in Nat : n = Len(q)
    OBVIOUS
  <1>3. DOMAIN q = 1..n /\ DOMAIN r = 1..(n - 1) /\ \A i \in 1..(n - 1) : r[i] = q[i + 1] /\ i + 1 \in 1..n
    BY <1>1, <1>2, RestOf
  <1>4. ASSUME NEW i \in DOMAIN r, NEW j \in DOMAIN r, i < j, r[i].type = "launch", r[j].type = "copy"
        PROVE  \E f \in i..j : r[f].type = "flush"
    <2>1. q[i + 1].type = "launch" /\ q[j + 1].type = "copy" /\ i + 1 \in DOMAIN q /\ j + 1 \in DOMAIN q /\ i + 1 < j + 1
      BY <1>3, <1>4
    <2>2. PICK f \in (i + 1)..(j + 1) : q[f].type = "flush"
      BY <2>1 DEF FlushBetween
    <2>3. PICK e \in i..j : e + 1 = f
      <3>1. f - 1 \in i..j /\ (f - 1) + 1 = f
        BY <1>3
      <3> QED BY <3>1
    <2>4. e \in 1..(n - 1)
      BY <1>3
    <2>5. r[e] = q[e + 1]
      BY <1>3, <2>4
    <2> QED BY <2>2, <2>3, <2>5
  <1> QED BY <1>1, <1>4, SMTT(30) DEF FlushBetween

(* Behind a command that is not a flush, copies still have a flush ahead. *)
LEMMA FirstRest ==
    ASSUME NEW S, NEW q \in Seq(S), q # <<>>, FlushedFirst(q), Head(q).type # "flush"
    PROVE  FlushedFirst(Tail(q))
  <1>1. PICK r : r = Tail(q)
    OBVIOUS
  <1>2. PICK n \in Nat : n = Len(q)
    OBVIOUS
  <1>3. DOMAIN q = 1..n /\ DOMAIN r = 1..(n - 1) /\ \A i \in 1..(n - 1) : r[i] = q[i + 1] /\ i + 1 \in 1..n
    BY <1>1, <1>2, RestOf
  <1>4. q[1].type # "flush"
    OBVIOUS
  <1>5. ASSUME NEW j \in DOMAIN r, r[j].type = "copy" PROVE \E i \in 1..(j - 1) : r[i].type = "flush"
    <2>1. q[j + 1].type = "copy" /\ j + 1 \in DOMAIN q /\ (j + 1) - 1 = j
      BY <1>3, <1>5
    <2>2. PICK f \in 1..j : q[f].type = "flush"
      BY <2>1 DEF FlushedFirst
    <2>3. f # 1
      BY <1>4, <2>2
    <2>4. PICK e \in 1..(j - 1) : e + 1 = f
      <3>1. f - 1 \in 1..(j - 1) /\ (f - 1) + 1 = f
        BY <1>3, <2>3
      <3> QED BY <3>1
    <2>5. e \in 1..(n - 1)
      BY <1>3
    <2>6. r[e] = q[e + 1]
      BY <1>3, <2>5
    <2> QED BY <2>2, <2>4, <2>6
  <1> QED BY <1>1, <1>5 DEF FlushedFirst

(* A copy at the head has no flush ahead. *)
LEMMA CopyFirst ==
    ASSUME NEW S, NEW q \in Seq(S), q # <<>>, FlushedFirst(q)
    PROVE  Head(q).type # "copy"
  <1> SUFFICES ASSUME Head(q).type = "copy" PROVE FALSE
    OBVIOUS
  <1>1. 1 \in DOMAIN q /\ q[1].type = "copy"
    OBVIOUS
  <1>2. PICK i \in 1..(1 - 1) : q[i].type = "flush"
    BY <1>1 DEF FlushedFirst
  <1> QED BY <1>2

(* The L2 cache has one request at a time, and a flush is one of the command processor's. *)
LEMMA L2Queue ==
    Controlled => \A g \in GPU :
        /\ toPart[g]["l2"] \in {<<>>, <<"flush">>, <<"reset">>, <<"restart">>}
        /\ toPart[g]["l2"] = <<"flush">> => Flushing(g)
  <1> SUFFICES ASSUME Controlled, NEW g \in GPU
               PROVE  /\ toPart[g]["l2"] \in {<<>>, <<"flush">>, <<"reset">>, <<"restart">>}
                      /\ toPart[g]["l2"] = <<"flush">> => Flushing(g)
    OBVIOUS
  <1>1. PICK s \in Stage : GPUAt(g, s)
    BY StageOfIs DEF Controlled
  <1>2. "l2" \in Cache /\ Stop("l2") = "reset"
    BY PartsApart DEF Stop
  <1>3. CASE CacheAt(s) = "up"
    <2>1. PartUp(g, "l2")
      BY <1>1, <1>2, <1>3 DEF GPUAt, GroupAt
    <2> QED BY <1>2, <2>1 DEF PartUp, Quiet, Asked, Replied, Flushing
  <1>4. CASE CacheAt(s) = "down"
    <2>1. PartDown(g, "l2")
      BY <1>1, <1>2, <1>4 DEF GPUAt, GroupAt
    <2>2. toPart[g]["l2"] = <<>>
      BY <2>1 DEF PartDown, Quiet
    <2>3. <<>> # <<"flush">>
      OBVIOUS
    <2> QED BY <2>2, <2>3
  <1>5. CASE CacheAt(s) = "starts"
    <2>1. PartStarts(g, "l2")
      BY <1>1, <1>2, <1>5 DEF GPUAt, GroupAt
    <2>2. toPart[g]["l2"] \in {<<>>, <<"restart">>}
      BY <2>1 DEF PartStarts, Asked, Replied, Quiet
    <2>3. <<>> # <<"flush">> /\ <<"restart">> # <<"flush">>
      OBVIOUS
    <2> QED BY <2>2, <2>3
  <1>6. CASE CacheAt(s) = "stops"
    <2>1. PartStops(g, "l2")
      BY <1>1, <1>2, <1>6 DEF GPUAt, GroupAt
    <2>2. toPart[g]["l2"] \in {<<>>, <<"reset">>}
      BY <1>2, <2>1 DEF PartStops, PartDown, Asked, Replied, Quiet
    <2>3. <<>> # <<"flush">> /\ <<"reset">> # <<"flush">>
      OBVIOUS
    <2> QED BY <2>2, <2>3
  <1> QED BY <1>3, <1>4, <1>5, <1>6 DEF CacheAt

(* The same after a step. *)
LEMMA L2QueueNext ==
   (Controlled => \A g \in GPU :
        /\ toPart[g]["l2"] \in {<<>>, <<"flush">>, <<"reset">>, <<"restart">>}
        /\ toPart[g]["l2"] = <<"flush">> => Flushing(g))'
  BY L2Queue, PTL

-----------------------------------------------------------------------------
(* A step of a GPU hands at most its own command to its command processor. *)
LEMMA PortChanges ==
    ASSUME NEW g \in GPU, GPUStep(g)
    PROVE  driver' = driver /\ (toDriver' = toDriver \/ ProcessReqFromDriver(g))
  <1>1. driver' = driver
    BY DEF GPUStep, ComposedUnchanged, RDMAPauses, RDMADrained, RDMARestarts, DMACopies
  <1>2. CASE PMCStep(g) /\ UNCHANGED <<cpVars, accessVars>> /\ ComposedUnchanged
    BY <1>1, <1>2 DEF cpVars, portVars
  <1>3. CASE CPStep(g)
    <2>1. CASE ProcessRspFromInternal(g)
      BY <1>1, <2>1 DEF ProcessRspFromInternal, ProcessMemCopyRsp, ProcessRDMARsp, ProcessPageMigrationRsp,
            ProcessCUPipelineFlushRsp, ProcessCUPipelineRestartRsp, ProcessAddressTranslatorFlushRsp,
            ProcessAddressTranslatorRestartRsp, ProcessCacheFlushRsp, ProcessCacheRestartRsp,
            ProcessTLBFlushRsp, ProcessTLBRestartRsp
    <2>2. CASE SendToPMC(g)
      BY <1>1, <2>2 DEF SendToPMC
    <2> QED BY <1>1, <1>3, <2>1, <2>2 DEF CPStep
  <1>4. CASE PMCAnswers(g)
    BY <1>1, <1>4 DEF PMCAnswers
  <1>5. CASE PartStep(g)
    BY <1>1, <1>5 DEF PartStep, StopsOrContinues, L2Flushes, L2Restarts, TLBHandles
  <1>6. CASE RDMAPauses(g) \/ RDMADrained(g) \/ RDMARestarts(g) \/ DMACopies(g)
    BY <1>1, <1>6 DEF RDMAPauses, RDMADrained, RDMARestarts, DMACopies, portVars
  <1> QED BY <1>2, <1>3, <1>4, <1>5, <1>6 DEF GPUStep

(* The flushes on their way change only when a command processor takes one. *)
LEMMA FlushTakes ==
    ASSUME Typed, NEW g \in GPU, NEW h \in GPU, GPUStep(g)
    PROVE  Before("flush", h)' = Before("flush", h) \/ (h = g /\ ProcessFlushCommand(g))
  <1>1. driver' = driver /\ (toDriver' = toDriver \/ ProcessReqFromDriver(g))
    BY PortChanges
  <1>2. "flush" \in Kinds
    BY DEF Kinds
  <1>3. CASE toDriver' = toDriver
    BY <1>1, <1>3, BeforeSame
  <1>4. ASSUME NEW t, t # "flush", FromDriver(g, t), RetrieveFromDriver(g)
        PROVE  Before("flush", h)' = Before("flush", h)
    BY <1>1, <1>2, <1>4, BeforeTaken
  <1>5. ASSUME ProcessFlushCommand(g), h # g
        PROVE  Before("flush", h)' = Before("flush", h)
    <2>1. FromDriver(g, "flush") /\ RetrieveFromDriver(g)
      BY <1>5 DEF ProcessFlushCommand
    <2> QED BY <1>1, <1>2, <1>5, <2>1, BeforeTaken
  <1>6. CASE ProcessReqFromDriver(g)
    BY <1>4, <1>5, <1>6 DEF ProcessReqFromDriver, ProcessLaunchKernelReq, ProcessMemCopyReq, ProcessRDMADrainCmd,
        ProcessRDMARestartCommand, ProcessShootdownCommand, ProcessGPURestartReq, ProcessPageMigrationReq
  <1> QED BY <1>1, <1>3, <1>6

(* What happens to the requests of the L2 cache of a GPU. *)
L2Goes(h) ==
    \/ toPart'[h]["l2"] = toPart[h]["l2"]
    \/ \E k : toPart'[h]["l2"] = Append(toPart[h]["l2"], k)

(* A request sent to parts of a GPU is added to the L2 cache's or leaves them. *)
LEMMA L2Sent ==
    ASSUME Typed, NEW g \in GPU, NEW parts, NEW r, SendTo(g, parts, r)
    PROVE  \A h \in GPU : L2Goes(h)
  <1>1. toPart \in [GPU -> [Part -> Seq(Control)]] /\ "l2" \in Part
    BY PartsApart DEF Typed, CPTypeOK
  <1> QED BY <1>1 DEF SendTo, L2Goes

(* An answer of another part leaves the requests of the L2 caches. *)
LEMMA L2Answered ==
    ASSUME Typed, NEW g \in GPU, NEW p \in Part, p # "l2", Answers(g, p)
    PROVE  \A h \in GPU : L2Goes(h)
  <1>1. toPart \in [GPU -> [Part -> Seq(Control)]] /\ "l2" \in Part
    BY PartsApart DEF Typed, CPTypeOK
  <1> QED BY <1>1 DEF Answers, L2Goes

(* Steps that leave the requests of the parts leave those of the L2 caches. *)
LEMMA L2Stays ==
    ASSUME toPart' = toPart
    PROVE  \A h \in GPU : L2Goes(h)
  BY DEF L2Goes

(* A command processor only adds to the requests of an L2 cache. *)
LEMMA CPAsksL2 ==
    ASSUME Typed, NEW g \in GPU, CPStep(g)
    PROVE  \A h \in GPU : L2Goes(h)
  <1>1. CASE ProcessReqFromDriver(g)
    BY <1>1, L2Sent, L2Stays DEF ProcessReqFromDriver, ProcessLaunchKernelReq, ProcessFlushCommand, ProcessMemCopyReq,
        ProcessRDMADrainCmd, ProcessRDMARestartCommand, ProcessShootdownCommand, ProcessGPURestartReq,
        ProcessPageMigrationReq
  <1>2. CASE SendToPMC(g)
    BY <1>2, L2Stays DEF SendToPMC
  <1>3. CASE ProcessMemCopyRsp(g) \/ ProcessRDMARsp(g) \/ ProcessPageMigrationRsp(g)
    BY <1>3, L2Stays DEF ProcessMemCopyRsp, ProcessRDMARsp, ProcessPageMigrationRsp
  <1>4. ASSUME NEW c \in CU, ProcessCUPipelineFlushRsp(g, c) \/ ProcessCUPipelineRestartRsp(g, c)
        PROVE  \A h \in GPU : L2Goes(h)
    BY <1>4, L2Sent, L2Stays DEF ProcessCUPipelineFlushRsp, ProcessCUPipelineRestartRsp
  <1>5. ASSUME NEW a \in AT, ProcessAddressTranslatorFlushRsp(g, a) \/ ProcessAddressTranslatorRestartRsp(g, a)
        PROVE  \A h \in GPU : L2Goes(h)
    BY <1>5, L2Sent, L2Stays DEF ProcessAddressTranslatorFlushRsp, ProcessAddressTranslatorRestartRsp
  <1>6. ASSUME NEW c \in Cache, ProcessCacheFlushRsp(g, c) \/ ProcessCacheRestartRsp(g, c)
        PROVE  \A h \in GPU : L2Goes(h)
    BY <1>6, L2Sent, L2Stays DEF ProcessCacheFlushRsp, ProcessCacheRestartRsp, CacheFlushCausedByTLBShootdown
  <1>7. ASSUME NEW t \in TLB, ProcessTLBFlushRsp(g, t) \/ ProcessTLBRestartRsp(g, t)
        PROVE  \A h \in GPU : L2Goes(h)
    BY <1>7, L2Sent, L2Stays DEF ProcessTLBFlushRsp, ProcessTLBRestartRsp
  <1>8. CASE ProcessRspFromInternal(g)
    BY <1>3, <1>4, <1>5, <1>6, <1>7, <1>8 DEF ProcessRspFromInternal
  <1> QED BY <1>1, <1>2, <1>8 DEF CPStep

(* Only the L2 cache of the GPU that steps takes a request of its own. *)
LEMMA L2Asked ==
    ASSUME Typed, NEW g \in GPU, NEW h \in GPU, GPUStep(g)
    PROVE  L2Goes(h) \/ (h = g /\ (L2Flushes(g) \/ L2Restarts(g)))
  <1>0. toPart \in [GPU -> [Part -> Seq(Control)]] /\ "l2" \in Part /\ "rdma" \in Part /\ "dma" \in Part
    BY PartsApart DEF Typed, CPTypeOK
  <1>1. CASE PMCStep(g) /\ UNCHANGED <<cpVars, accessVars>> /\ ComposedUnchanged
    BY <1>1, L2Stays DEF cpVars, portVars
  <1>2. CASE CPStep(g)
    BY <1>2, CPAsksL2
  <1>3. CASE PMCAnswers(g)
    BY <1>3, L2Stays DEF PMCAnswers
  <1>4. ASSUME NEW p \in CU \cup AT \cup L1 \cup TLB, Answers(g, p) PROVE L2Goes(h)
    <2>1. p \in Part /\ p # "l2"
      BY PartsApart
    <2> QED BY <1>4, <2>1, L2Answered
  <1>5. ASSUME h # g, Answers(g, "l2") PROVE L2Goes(h)
    BY <1>0, <1>5 DEF Answers, L2Goes
  <1>6. CASE PartStep(g)
    BY <1>4, <1>5, <1>6 DEF PartStep, StopsOrContinues, L2Flushes, L2Restarts, TLBHandles
  <1>7. CASE RDMAPauses(g)
    BY <1>7, L2Stays DEF RDMAPauses, portVars
  <1>8. CASE RDMADrained(g) \/ RDMARestarts(g) \/ DMACopies(g)
    <2>1. Answers(g, "rdma") \/ Answers(g, "dma")
      BY <1>8 DEF RDMADrained, RDMARestarts, DMACopies
    <2>2. "rdma" # "l2" /\ "dma" # "l2"
      OBVIOUS
    <2> QED BY <1>0, <2>1, <2>2, L2Answered
  <1> QED BY <1>1, <1>2, <1>3, <1>6, <1>7, <1>8 DEF GPUStep

(* A step of a GPU leaves the dirty lines of the L2 caches or writes back its own. *)
LEMMA DirtyOf ==
    ASSUME Typed, NEW g \in GPU, GPUStep(g)
    PROVE  dirty' = dirty \/ (L2Flushes(g) /\ dirty' = [dirty EXCEPT ![g] = [id \in PullID |-> Clean]])
  <1>1. CASE CPStep(g) \/ PMCAnswers(g) \/ (PMCStep(g) /\ UNCHANGED cpVars)
    BY <1>1, CPStepDrops
  <1>2. CASE PartStep(g)
    BY <1>2, PartDirty DEF L2Flushes
  <1>3. CASE RDMAPauses(g) \/ RDMADrained(g) \/ RDMARestarts(g) \/ DMACopies(g)
    BY <1>3, RDMAStepDrops
  <1> QED BY <1>1, <1>2, <1>3 DEF GPUStep, cpVars

(* A line that is dirty after a step was so before, and its cache did not flush. *)
LEMMA DirtyLeft ==
    ASSUME Typed, NEW g \in GPU, NEW h \in GPU, NEW id \in PullID, GPUStep(g), dirty'[h][id] # Clean
    PROVE  dirty[h][id] # Clean /\ (h = g => ~L2Flushes(g))
  <1>1. dirty \in [GPU -> [PullID -> Data \cup {Clean}]]
    BY DEF Typed, CPTypeOK
  <1>2. L2Flushes(g) => dirty' = [dirty EXCEPT ![g] = [i \in PullID |-> Clean]]
    BY DEF L2Flushes
  <1> QED BY <1>1, <1>2, DirtyOf

(* A flush that has just been asked of an idle L2 cache is its only request. *)
LEMMA FlushAsked ==
    ASSUME Controlled, Controlled', NEW g \in GPU, ProcessFlushCommand(g)
    PROVE  toPart'[g]["l2"] = <<"flush">>
  <1>1. toPart \in [GPU -> [Part -> Seq(Control)]] /\ "l2" \in Part /\ "l2" \in Cache
    BY PartsApart DEF Controlled, Typed, CPTypeOK
  <1>2. toPart'[g]["l2"] = Append(toPart[g]["l2"], "flush")
    BY <1>1 DEF ProcessFlushCommand, SendTo
  <1>3. PICK q \in Seq(Control) : q = toPart[g]["l2"]
    BY <1>1
  <1>4. PICK r : r = toPart'[g]["l2"]
    OBVIOUS
  <1>5. r = Append(q, "flush")
    BY <1>2, <1>3, <1>4
  <1>6. r[Len(r)] = "flush" /\ r # <<>>
    BY <1>3, <1>5
  <1>7. r \in {<<>>, <<"flush">>, <<"reset">>, <<"restart">>}
    BY <1>4, L2QueueNext
  <1>8. r # <<"reset">> /\ r # <<"restart">>
    BY <1>6
  <1> QED BY <1>4, <1>6, <1>7, <1>8

(* A flush that an L2 cache has not taken stays its only request. *)
LEMMA FlushStays ==
    ASSUME Controlled, Controlled', NEW g \in GPU, NEW h \in GPU, GPUStep(g), toPart[h]["l2"] = <<"flush">>,
           h = g => ~L2Flushes(g)
    PROVE  toPart'[h]["l2"] = <<"flush">>
  <1>1. L2Goes(h) \/ (h = g /\ (L2Flushes(g) \/ L2Restarts(g)))
    BY L2Asked DEF Controlled
  <1>2. ~(h = g /\ L2Restarts(g))
    <2>1. Head(<<"flush">>) = "flush"
      OBVIOUS
    <2> QED BY <2>1 DEF L2Restarts, HasRequest
  <1>3. ASSUME NEW k, toPart'[h]["l2"] = Append(toPart[h]["l2"], k) PROVE FALSE
    <2>1. PICK r : r = toPart'[h]["l2"]
      OBVIOUS
    <2>2. r = Append(<<"flush">>, k)
      BY <1>3, <2>1
    <2>3. Len(r) = 2
      BY <2>2
    <2>4. r \in {<<>>, <<"flush">>, <<"reset">>, <<"restart">>}
      BY <2>1, L2QueueNext
    <2>5. r # <<>>
      BY <2>3
    <2>6. r # <<"flush">>
      BY <2>3
    <2>7. r # <<"reset">>
      BY <2>3
    <2>8. r # <<"restart">>
      BY <2>3
    <2> QED BY <2>4, <2>5, <2>6, <2>7, <2>8
  <1> QED BY <1>1, <1>2, <1>3 DEF L2Goes

(* A step of a GPU. *)
LEMMA FreshGPU ==
    ASSUME Controlled, Controlled', Fresh, NEW g \in GPU, GPUStep(g)
    PROVE  Fresh'
  <1>1. queue' = queue /\ isRunning' = isRunning
    BY DEF GPUStep, ComposedUnchanged, queueVars, RDMAPauses, RDMADrained, RDMARestarts, DMACopies
  <1>2. ASSUME AllClean PROVE AllClean'
    BY <1>2, DirtyLeft DEF AllClean, Controlled
  <1>3. FlushedFirst(queue) => FlushedFirst(queue')
    BY <1>1
  <1>4. FlushBetween(queue')
    BY <1>1 DEF Fresh
  <1>5. ASSUME isRunning', Head(queue').type = "flush", NEW h \in GPU, NEW id \in PullID, dirty'[h][id] # Clean
        PROVE  Before("flush", h)' # 0 \/ toPart'[h]["l2"] = <<"flush">>
    <2>1. dirty[h][id] # Clean /\ (h = g => ~L2Flushes(g))
      BY <1>5, DirtyLeft DEF Controlled
    <2>2. Before("flush", h) # 0 \/ toPart[h]["l2"] = <<"flush">>
      BY <1>1, <1>5, <2>1 DEF Fresh, FlushWaits
    <2>3. CASE toPart[h]["l2"] = <<"flush">>
      BY <2>1, <2>3, FlushStays
    <2>4. CASE Before("flush", h) # 0
      BY <2>4, FlushTakes, FlushAsked DEF Controlled
    <2> QED BY <2>2, <2>3, <2>4
  <1>6. FlushWaits'
    BY <1>5 DEF FlushWaits
  <1> QED BY <1>2, <1>3, <1>4, <1>6 DEF Fresh, FlushedFirst, FlushBetween

-----------------------------------------------------------------------------
(* A step of the driver that leaves the queue leaves the flushes on their way. *)
LEMMA QueueLeft ==
    ASSUME DriverStep
    PROVE  \/ ProcessOneCommand \/ (\E g \in GPU : ProcessCommandReturn(g))
           \/ /\ UNCHANGED queueVars
              /\ \/ uplink' = uplink
                 \/ \E g \in GPU : /\ uplink[g] # <<>> /\ Head(uplink[g]) # "flush"
                                   /\ uplink' = [uplink EXCEPT ![g] = Tail(@)]
  <1>1. CASE SendToGPUs \/ SendToMMU \/ SendMigrationReqToCP \/ ParseFromMMU
    BY <1>1 DEF SendToGPUs, SendToMMU, SendMigrationReqToCP, ParseFromMMU, ToCPUnchanged, cpVars, portVars
  <1>2. ASSUME NEW g \in GPU,
               \/ ProcessRDMADrainRsp(g) \/ ProcessShootdownCompleteRsp(g) \/ ProcessPageMigrationRspFromCP(g)
               \/ HandleGPURestartRsp(g) \/ ProcessRDMARestartRspToDriver(g)
        PROVE  /\ UNCHANGED queueVars /\ uplink[g] # <<>> /\ Head(uplink[g]) # "flush"
               /\ uplink' = [uplink EXCEPT ![g] = Tail(@)]
    BY <1>2 DEF ProcessRDMADrainRsp, ProcessShootdownCompleteRsp, ProcessPageMigrationRspFromCP,
        HandleGPURestartRsp, ProcessRDMARestartRspToDriver, Return, ReturnUnchanged
  <1> QED BY <1>1, <1>2 DEF DriverStep

(* What a GPU works on of a flush depends on its parts only. *)
LEMMA FlushInside ==
    ASSUME GPUsKept, NEW h \in GPU
    PROVE  Inside("flush", h)' = Inside("flush", h)
  <1>1. Flushing(h)' <=> Flushing(h)
    BY DEF GPUsKept, Flushing, Asked, Replied
  <1> QED BY <1>1, InsideIs, InsideIsNext DEF One

(* The flushes on their way to a GPU stay when the queue and the answers do. *)
LEMMA FlushLeft ==
    ASSUME Controlled, Controlled', DriverStep, UNCHANGED queueVars, NEW h \in GPU,
           After("flush", h)' = After("flush", h)
    PROVE  Before("flush", h)' = Before("flush", h)
  <1>1. "flush" \in Kinds /\ Typed /\ Queued
    BY DEF Kinds, Controlled, Driven
  <1>2. Typed' /\ Queued'
    BY DEF Controlled, Driven
  <1>3. Inside("flush", h)' = Inside("flush", h)
    BY DriverStepKeeps, FlushInside
  <1>4. Under("flush", h) = One(h \in reqs /\ Head(queue).type = "flush")
    BY <1>1 DEF Queued
  <1>5. Under("flush", h)' = One(h \in reqs' /\ Head(queue').type = "flush")
    BY <1>2 DEF Queued
  <1>6. Under("flush", h)' = Under("flush", h)
    BY <1>4, <1>5 DEF queueVars
  <1>7. Before("flush", h) \in Nat /\ Inside("flush", h) \in Nat /\ After("flush", h) \in Nat
        /\ Under("flush", h) = Before("flush", h) + Inside("flush", h) + After("flush", h)
    BY <1>1, UnderIs
  <1>8. Under("flush", h)' = Before("flush", h)' + Inside("flush", h)' + After("flush", h)'
    BY UnderIsNext
  <1>9. Before("flush", h)' \in Nat
    BY <1>1, <1>2, CountsTypedNext
  <1>10. PICK a \in Nat : a = Before("flush", h)
    BY <1>7
  <1>11. PICK b \in Nat : b = Before("flush", h)'
    BY <1>9
  <1>12. PICK i \in Nat : i = Inside("flush", h)
    BY <1>7
  <1>13. PICK c \in Nat : c = After("flush", h)
    BY <1>7
  <1>14. a + i + c = b + i + c
    BY <1>3, <1>6, <1>7, <1>8, <1>10, <1>11, <1>12, <1>13
  <1>15. a = b
    BY <1>14
  <1> QED BY <1>10, <1>11, <1>15

(* A step of the driver that leaves the queue. *)
LEMMA FreshDriver ==
    ASSUME Controlled, Controlled', Fresh, DriverStep, ~ProcessOneCommand, \A g \in GPU : ~ProcessCommandReturn(g)
    PROVE  Fresh'
  <1>1. UNCHANGED queueVars /\ dirty' = dirty /\ toPart' = toPart
    BY QueueLeft, DriverStepKeeps DEF GPUsKept
  <1>2. ASSUME NEW h \in GPU PROVE Before("flush", h)' = Before("flush", h)
    <2>1. Typed /\ "flush" \in Kinds
      BY DEF Controlled, Kinds
    <2>2. CASE uplink' = uplink
      BY <1>1, <2>2, AfterSame, FlushLeft
    <2>3. ASSUME NEW g \in GPU, uplink[g] # <<>>, Head(uplink[g]) # "flush", uplink' = [uplink EXCEPT ![g] = Tail(@)]
          PROVE  Before("flush", h)' = Before("flush", h)
      <3>1. After("flush", h)' = After("flush", h)
        BY <2>1, <2>3, AfterLeft
      <3> QED BY <1>1, <3>1, FlushLeft
    <2> QED BY <2>2, <2>3, QueueLeft
  <1>3. queue' = queue /\ isRunning' = isRunning
    BY <1>1 DEF queueVars
  <1>4. FlushWaits'
    BY <1>1, <1>2, <1>3 DEF Fresh, FlushWaits
  <1>5. AllClean => AllClean'
    BY <1>1 DEF AllClean
  <1> QED BY <1>3, <1>4, <1>5 DEF Fresh, FlushedFirst, FlushBetween

(* A command starts: a flush is sent to every GPU. *)
LEMMA FreshStart ==
    ASSUME Controlled, Controlled', Fresh, ProcessOneCommand
    PROVE  Fresh'
  <1>1. queue' = queue /\ dirty' = dirty /\ toPart' = toPart /\ uplink' = uplink /\ ~isRunning
    BY DEF ProcessOneCommand, cpVars, portVars, gpuVars
  <1>2. GPUsKept
    BY DriverStepKeeps DEF DriverStep
  <1>3. reqs = {} /\ Typed /\ "flush" \in Kinds
    BY <1>1 DEF Controlled, Driven, Queued, Kinds
  <1>4. ASSUME Head(queue').type = "flush", NEW h \in GPU PROVE Before("flush", h)' # 0
    <2>1. Under("flush", h) = 0
      BY <1>3 DEF Controlled, Driven, Queued, One
    <2>2. Before("flush", h) \in Nat /\ Inside("flush", h) \in Nat /\ After("flush", h) \in Nat
          /\ Under("flush", h) = Before("flush", h) + Inside("flush", h) + After("flush", h)
      BY <1>3, UnderIs
    <2>3. Inside("flush", h) = 0 /\ After("flush", h) = 0
      BY <2>1, <2>2
    <2>4. Inside("flush", h)' = 0
      BY <1>2, <2>3, FlushInside
    <2>5. After("flush", h)' = 0
      BY <1>1, <2>3, AfterSame
    <2>6. reqs' = GPU
      BY <1>1, <1>4 DEF ProcessOneCommand
    <2>7. Under("flush", h)' = One(h \in reqs' /\ Head(queue').type = "flush")
      BY DEF Controlled, Driven, Queued
    <2>8. Under("flush", h)' = 1
      BY <1>4, <2>6, <2>7 DEF One
    <2>9. Under("flush", h)' = Before("flush", h)' + Inside("flush", h)' + After("flush", h)'
      BY UnderIsNext
    <2> QED BY <2>4, <2>5, <2>8, <2>9
  <1>5. FlushWaits'
    BY <1>4 DEF FlushWaits
  <1>6. AllClean => AllClean'
    BY <1>1 DEF AllClean
  <1> QED BY <1>1, <1>5, <1>6 DEF Fresh, FlushedFirst, FlushBetween

(* A flush that every GPU but one has ended, and that one answers, has left nothing dirty. *)
LEMMA AllFlushed ==
    ASSUME Controlled, FlushWaits, NEW g \in GPU, uplink[g] # <<>>, Head(uplink[g]) = "flush",
           uplink' = [uplink EXCEPT ![g] = Tail(@)], isRunning, Head(queue).type = "flush", reqs = {g}
    PROVE  AllClean
  <1>1. Typed /\ "flush" \in Kinds /\ Queued
    BY DEF Controlled, Driven, Kinds
  <1>2. ASSUME NEW h \in GPU PROVE Before("flush", h) = 0 /\ Inside("flush", h) = 0
    <2>1. Before("flush", h) \in Nat /\ Inside("flush", h) \in Nat /\ After("flush", h) \in Nat
          /\ Under("flush", h) = Before("flush", h) + Inside("flush", h) + After("flush", h)
      BY <1>1, UnderIs
    <2>2. Under("flush", h) = One(h = g)
      BY <1>1 DEF Queued, One
    <2>3. CASE h = g
      <3>1. After("flush", g) # 0
        BY <1>1, AfterTaken
      <3> QED BY <2>1, <2>2, <2>3, <3>1 DEF One
    <2>4. CASE h # g
      BY <2>1, <2>2, <2>4 DEF One
    <2> QED BY <2>3, <2>4
  <1>3. ASSUME NEW h \in GPU, NEW id \in PullID, dirty[h][id] # Clean PROVE FALSE
    <2>1. Before("flush", h) # 0 \/ toPart[h]["l2"] = <<"flush">>
      BY <1>3 DEF FlushWaits
    <2>2. Before("flush", h) = 0 /\ Inside("flush", h) = 0
      BY <1>2
    <2>3. ~Flushing(h)
      BY <2>2, InsideIs DEF One
    <2> QED BY <2>1, <2>2, <2>3, L2Queue
  <1> QED BY <1>3 DEF AllClean

(* A command ends, or another GPU is done with it. *)
LEMMA FreshAnswer ==
    ASSUME Controlled, Controlled', Fresh, NEW g \in GPU, ProcessCommandReturn(g)
    PROVE  Fresh'
  <1>1. /\ uplink[g] # <<>> /\ queue # <<>> /\ Head(queue).type = Head(uplink[g]) /\ g \in reqs
        /\ uplink' = [uplink EXCEPT ![g] = Tail(@)]
        /\ toDriver' = toDriver /\ driver' = driver /\ toPart' = toPart /\ dirty' = dirty
    BY DEF ProcessCommandReturn, gpuVars
  <1>2. queue \in Seq(QueueCommand) /\ isRunning
    BY <1>1 DEF Controlled, Typed, Driven, Queued
  <1>3. AllClean => AllClean'
    BY <1>1 DEF AllClean
  <1>4. CASE reqs \ {g} = {}
    <2>1. isRunning' = FALSE /\ queue' = Tail(queue)
      BY <1>4 DEF ProcessCommandReturn, CommandEnds
    <2>2. FlushBetween(Tail(queue))
      BY <1>1, <1>2, BetweenRest DEF Fresh
    <2>3. AllClean' \/ FlushedFirst(Tail(queue))
      <3>1. CASE Head(queue).type = "flush"
        <4>1. reqs = {g}
          BY <1>1, <1>4
        <4>2. AllClean
          BY <1>1, <1>2, <3>1, <4>1, AllFlushed DEF Fresh
        <4> QED BY <1>3, <4>2
      <3>2. CASE Head(queue).type # "flush"
        BY <1>1, <1>2, <1>3, <3>2, FirstRest DEF Fresh
      <3> QED BY <3>1, <3>2
    <2>4. FlushWaits'
      BY <2>1 DEF FlushWaits
    <2>5. PICK q : q = Tail(queue)
      OBVIOUS
    <2>6. FlushBetween(q) /\ (AllClean' \/ FlushedFirst(q)) /\ queue' = q
      BY <2>1, <2>2, <2>3, <2>5
    <2> QED BY <2>4, <2>6 DEF Fresh, FlushedFirst, FlushBetween
  <1>5. CASE reqs \ {g} # {}
    <2>1. isRunning' = isRunning /\ queue' = queue
      BY <1>5 DEF ProcessCommandReturn, CommandEnds
    <2>2. \A h \in GPU : Before("flush", h)' = Before("flush", h)
      BY <1>1, BeforeSame
    <2>3. FlushWaits'
      BY <1>1, <2>1, <2>2 DEF Fresh, FlushWaits
    <2> QED BY <1>3, <2>1, <2>3 DEF Fresh, FlushedFirst, FlushBetween
  <1> QED BY <1>4, <1>5

(* A kernel writes: it is at the head of the queue. *)
LEMMA FreshWrite ==
    ASSUME Controlled, InKernel, Fresh, NEW g \in GPU, inflight[g] # NoAccess \/ rdmaOut[g] # NoAccess,
           queue' = queue, isRunning' = isRunning
    PROVE  Fresh'
  <1>1. dispatching[g] /\ "launch" \in Kinds /\ Typed
    BY DEF InKernel, Kinds, Controlled
  <1>2. Under("launch", g) # 0
    <2>1. Inside("launch", g) = 1
      BY <1>1, InsideIs DEF One
    <2> QED BY <1>1, <2>1, UnderIs
  <1>3. Under("launch", g) = One(g \in reqs /\ Head(queue).type = "launch")
    BY DEF Controlled, Driven, Queued
  <1>4. g \in reqs /\ Head(queue).type = "launch"
    BY <1>2, <1>3 DEF One
  <1>5. queue \in Seq(QueueCommand) /\ queue # <<>>
    BY <1>4 DEF Controlled, Typed, Driven, Queued
  <1>6. FlushedFirst(queue)
    BY <1>4, <1>5, LaunchFirst DEF Fresh
  <1>7. FlushWaits'
    BY <1>4 DEF FlushWaits
  <1> QED BY <1>6, <1>7 DEF Fresh, FlushedFirst, FlushBetween

(* A step of a kernel. *)
LEMMA FreshKernel ==
    ASSUME Controlled, InKernel, Fresh, NEW g \in GPU, KernelEnds(g)
    PROVE  Fresh'
  <1>1. queue' = queue /\ isRunning' = isRunning
    BY DEF KernelEnds, LocalWrite, RemoteRequest, RemoteWrite, KernelDone, queueVars
  <1>2. CASE LocalWrite(g) \/ RemoteRequest(g) \/ RemoteWrite(g)
    BY <1>1, <1>2, FreshWrite DEF LocalWrite, RemoteRequest, RemoteWrite
  <1>3. CASE KernelDone(g)
    <2>1. driver' = driver /\ toDriver' = toDriver /\ toPart' = toPart /\ dirty' = dirty
      BY <1>3 DEF KernelDone
    <2>2. \A h \in GPU : Before("flush", h)' = Before("flush", h)
      BY <2>1, BeforeSame
    <2>3. FlushWaits'
      BY <1>1, <2>1, <2>2 DEF Fresh, FlushWaits
    <2>4. AllClean => AllClean'
      BY <2>1 DEF AllClean
    <2> QED BY <1>1, <2>3, <2>4 DEF Fresh, FlushedFirst, FlushBetween
  <1> QED BY <1>2, <1>3 DEF KernelEnds

(* The rest of the steps change nothing a flush depends on. *)
LEMMA FreshStill ==
    ASSUME Fresh, UNCHANGED <<queue, isRunning, dirty, toPart, toDriver, driver>>
    PROVE  Fresh'
  <1>1. \A h \in GPU : Before("flush", h)' = Before("flush", h)
    BY BeforeSame
  <1>2. FlushWaits'
    BY <1>1 DEF Fresh, FlushWaits
  <1>3. AllClean => AllClean'
    BY DEF AllClean
  <1> QED BY <1>2, <1>3 DEF Fresh, FlushedFirst, FlushBetween

(* Every step keeps copies behind flushes. *)
LEMMA StaysFresh ==
    ASSUME Controlled, Controlled', Orderly, Fresh, [Next]_vars
    PROVE  Fresh'
  <1>0. InKernel
    BY DEF Orderly, Apart
  <1>1. CASE DriverStep
    BY <1>1, FreshDriver, FreshStart, FreshAnswer
  <1>2. ASSUME NEW g \in GPU, GPUStep(g) PROVE Fresh'
    BY <1>2, FreshGPU
  <1>3. ASSUME NEW g \in GPU, KernelEnds(g) PROVE Fresh'
    BY <1>0, <1>3, FreshKernel
  <1>4. CASE Kernels
    BY <1>4, FreshStill DEF Kernels, Translate, MMURequests, queueVars, portVars, cpVars, gpuVars
  <1>5. CASE UNCHANGED vars
    BY <1>5, FreshStill DEF vars, queueVars, portVars, cpVars, gpuVars
  <1> QED BY <1>1, <1>2, <1>3, <1>4, <1>5 DEF Next, System, Finished

(* The program has its flushes, and no cache holds a line. *)
LEMMA StartsFresh == Init => Fresh
  <1> SUFFICES ASSUME Init PROVE Fresh
    OBVIOUS
  <1>1. AllClean
    BY DEF Init, CPInit, AllClean
  <1>2. FlushBetween(queue)
    BY ProgramAssumption DEF Init, FlushBetween
  <1>3. FlushWaits
    BY DEF Init, FlushWaits
  <1> QED BY <1>1, <1>2, <1>3 DEF Fresh

(* Copies come after flushes in every reachable state. *)
THEOREM FreshInvariant == Spec => []Fresh
  BY StaysFresh, StartsFresh, DriverInvariant, OrderlyInvariant, PTL DEF Spec

(* A GPU copies a page for the command at the head of the queue. *)
LEMMA CopyRuns ==
    ASSUME Controlled, NEW g \in GPU, HasRequest(g, "dma", {"copy"})
    PROVE  Under("copy", g) # 0
  <1>1. Typed /\ "copy" \in Kinds
    BY DEF Controlled, Kinds
  <1>2. toPart \in [GPU -> [Part -> Seq(Control)]] /\ fromPart \in [GPU -> [Part -> Seq(Control)]] /\ "dma" \in Part
    BY <1>1, PartsApart DEF Typed, CPTypeOK
  <1>3. PICK q \in Seq(Control) : q = toPart[g]["dma"]
    BY <1>2
  <1>4. q # <<>> /\ Head(q) = "copy"
    BY <1>3 DEF HasRequest
  <1>5. Number(q, {"copy"}) # 0
    <2>1. 1 \in DOMAIN q /\ q[1] = "copy"
      BY <1>4
    <2> QED BY <2>1, NumberIn
  <1>6. Number(q, {"copy"}) \in Nat
    BY NumberIn
  <1>7. PICK r \in Seq(Control) : r = fromPart[g]["dma"]
    BY <1>2
  <1>8. Number(r, {"copy"}) \in Nat
    BY NumberIn
  <1>9. Inside("copy", g) = Number(q, {"copy"}) + Number(r, {"copy"})
    BY <1>3, <1>7, InsideIs DEF InPart
  <1>10. Inside("copy", g) # 0
    BY <1>5, <1>6, <1>8, <1>9
  <1> QED BY <1>1, <1>10, UnderIs

(* The memory of the GPU that copies a page is up to date. *)
LEMMA CopiesFresh ==
    ASSUME Controlled, PageIntact, Fresh
    PROVE  CopyFresh
  <1> SUFFICES ASSUME NEW g \in GPU, HasRequest(g, "dma", {"copy"}), NEW c \in Chunk
               PROVE  mem[g][<<Head(queue).page, c>>] = value[<<Head(queue).page, c>>]
    BY DEF CopyFresh
  <1>1. Under("copy", g) # 0 /\ Typed
    BY CopyRuns DEF Controlled
  <1>2. Under("copy", g) = One(g \in reqs /\ Head(queue).type = "copy")
    BY DEF Controlled, Driven, Queued
  <1>3. g \in reqs /\ Head(queue).type = "copy"
    BY <1>1, <1>2 DEF One
  <1>4. queue \in Seq(QueueCommand) /\ queue # <<>> /\ g = pageTable[Head(queue).page]
    BY <1>3 DEF Controlled, Typed, Driven, Queued
  <1>5. PICK p \in Page : p = Head(queue).page
    <2>1. Head(queue) \in QueueCommand
      BY <1>4
    <2> QED BY <2>1 DEF QueueCommand
  <1>6. Moving = {}
    <2>1. Phase # "migrate"
      BY <1>3, PhaseAsks DEF Controlled
    <2> QED BY <2>1, MovingIs
  <1>7. Keeper(p) = g
    BY <1>4, <1>5, <1>6 DEF Keeper
  <1>8. PICK id \in PullID : id = <<p, c>>
    BY DEF PullID
  <1>9. id[1] = p
    BY <1>8
  <1>10. Holds(g, id) = value[id]
    BY <1>7, <1>9, IntactIs
  <1>11. AllClean
    BY <1>3, <1>4, CopyFirst DEF Fresh
  <1>12. mem[g][id] = value[id]
    BY <1>10, <1>11 DEF Holds, AllClean
  <1> QED BY <1>5, <1>8, <1>12

(* A copy to the host reads the last values written: the flush that       *)
(* enqueueFlushBeforeMemCopy puts between a kernel and a copy has written  *)
(* every L2 cache back before the copy starts, and the page table the copy *)
(* was addressed by does not change while it runs.                         *)
THEOREM CopiesAlwaysFresh == Spec => []CopyFresh
  BY CopiesFresh, DriverInvariant, PagesAlwaysIntact, FreshInvariant, PTL
==============================================================================
