---------------------------- MODULE MCStateAccess ----------------------------
(***************************************************************************)
(* Two parts of the library where threads wait for each other's mutexes, a *)
(* behaviour is one of part's: the state and code mutex (StateAccess), and *)
(* the mutex and the pipe of print (PrintOverride).                        *)
(***************************************************************************)
EXTENDS StateAccess, PrintOverride

CONSTANTS p, d, c1, c2

VARIABLE part

FourThreads == {p, d, c1, c2}
OldThreads == {c1, c2}
OneClient == {c1}
Nobody == {}
ProgramAndDebugger == {p, d}
MainOnly == {Main}

\* The program and c2 print messages of two bytes and of one into a pipe of
\* three, the debugger listens, c1 peeks.
ProgramAndClient == {p, c2}
DebuggerOnly == {d}
OnlyPeeks == [r \in {c1} |-> {"peek_n"}]
OneOrTwoBytes == [r \in {p, c2} |-> IF r = p THEN 2 ELSE 1]

WaitsInit == part \in {"access", "print"} /\ Init /\ PrintInit

WaitsNext ==
  /\ UNCHANGED part
  /\ \/ part = "access" /\ Next /\ UNCHANGED printVars
     \/ part = "print" /\ PrintNext /\ UNCHANGED vars

\* The fairness of both parts: a thread goes on in its call.  The part that
\* stays in its initial state has nothing to go on with.
GoesOn(t) ==
  /\ UNCHANGED part
  /\ (Step(t) /\ UNCHANGED printVars) \/ (Goes(t) /\ UNCHANGED vars)

WaitsSpec ==
  /\ WaitsInit /\ [][WaitsNext]_<<part, vars, printVars>>
  /\ \A t \in Threads : SF_<<part, vars, printVars>>(GoesOn(t))
=============================================================================
