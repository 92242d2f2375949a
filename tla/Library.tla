-------------------------------- MODULE Library --------------------------------
(* One call of what the kernel and its programs link from lib/: either a   *)
(* formatted output (Printf) or a function on memory or the monitor's      *)
(* parser (RunCmd).  They share no state: while one is called the other is *)
(* idle, with no step to take.                                             *)
EXTENDS Printf, RunCmd

PrintfIdle ==
  /\ Open("console", 0)
  /\ fmt = <<>> /\ args = <<>> /\ p = 1
  /\ esc = NoEsc /\ todo = <<>> /\ str = NoStr /\ remarks = <<>> /\ conv = NoConv
  /\ mode = "idle"

CmdIdle ==
  /\ call = [fn |-> "none", dst |-> 0, src |-> 0, n |-> 0, c |-> 0, numeral |-> NULL]
  /\ mem = <<>> /\ mem0 = <<>>
  /\ from = 0 /\ to = 0 /\ count = 0 /\ step = 0 /\ val = NoVal
  /\ ret = NULL /\ stage = "idle"
  /\ argv = <<>> /\ outcome = <<"none">>

LibraryInit == (PrintfInit /\ CmdIdle) \/ (CmdInit /\ PrintfIdle)

LibraryNext ==
  \/ PrintfNext /\ UNCHANGED cmdVars
  \/ CmdNext /\ UNCHANGED printfVars

LibrarySpec == LibraryInit /\ [][LibraryNext]_<<printfVars, cmdVars>>
=============================================================================
