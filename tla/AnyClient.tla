----------------------------- MODULE AnyClient -----------------------------
(***************************************************************************)
(* KernelHost with an arbitrary program on the other end of its pipes: it  *)
(* writes any line at any time, in or out of turn, reads whenever it       *)
(* likes and closes its end when it pleases.  What holds of this system    *)
(* holds of the runtime with every client library.                         *)
(***************************************************************************)
EXTENDS KernelHost

CONSTANT MaxLines   \* bound on the lines in a pipe when another is written
ASSUME MaxLinesAssumption == MaxLines \in Nat \ {0}

processVars == <<wireVars, hostVars>>

WriteLine ==
  /\ ~ eof /\ Len(toHost) < MaxLines /\ Len(toClient) < MaxLines
  /\ \E m \in Request \cup Finish : toHost' = Append(toHost, m)
  /\ UNCHANGED <<toClient, eof, hostVars>>

ReadLine ==
  /\ toClient # << >>
  /\ toClient' = Tail(toClient)
  /\ UNCHANGED <<toHost, eof, hostVars>>

Close ==
  /\ ~ eof
  /\ eof' = TRUE
  /\ UNCHANGED <<toHost, toClient, hostVars>>

ProcessTypeOK == WireTypeOK /\ HostTypeOK

ProcessInit == WireInit /\ HostInit
ProcessNext == WriteLine \/ ReadLine \/ Close \/ HostNext
ProcessSpec == ProcessInit /\ [][ProcessNext]_processVars
=============================================================================
