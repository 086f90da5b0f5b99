--------------------------- MODULE MCDebugModule ---------------------------
(* Values for the constants of DebugModule. *)
EXTENDS DebugModule

AllCommands  == CommandKinds
OneCommand   == {"program"}
TwoCommands  == {"program", "unsupported"}
OneValue     == {"v0"}
TwoValues    == {"v0", "v1"}
AutoData     == {"Data0"}
AutoBoth     == {"Data0", "ProgBuf0"}
NoAuto       == {}

=============================================================================
