--------------------------- MODULE MCDriverThreads ---------------------------
(* Two host threads with a queue each, in a context each or in one; or one *)
(* thread alone.                                                           *)
EXTENDS DriverThreads

MCHost == {"h1", "h2"}
MCOneHost == {"h1"}
MCContexts == [h \in MCHost |-> h]
MCOneHostContext == [h \in MCOneHost |-> "c"]
MCOneContext == [h \in MCHost |-> "c"]
MCDrains == [h \in MCHost |-> <<"kernel", "drain", "copy", "drain">>]
MCOneThread == [h \in MCOneHost |-> <<"copy", "kernel", "drain", "copy", "drain">>]
MCProgram == [h \in MCHost |-> IF h = "h1" THEN <<"kernel", "copy", "drain">>
                                           ELSE <<"kernel", "drain", "copy", "drain">>]
=============================================================================
