---------------------------- MODULE PrintOverride ----------------------------
(***************************************************************************)
(* lua::global::print_override: print, in every Lua thread of a main state,*)
(* writes its message to a pipe; other threads peek and read there.        *)
(*                                                                         *)
(* The pipe is the system's: it holds Capacity bytes, a write waits while  *)
(* it is full, a read while it is empty.  Both are done with the class     *)
(* mutex in hand; the bytes available are asked for without it.  A byte is *)
(* the message it belongs to, <<printer, number>>.  A thread waits for the *)
(* mutex when it has an operation under way and does not own it.           *)
(***************************************************************************)
EXTENDS Integers, Sequences

CONSTANTS
  Printers,   \* Lua threads of the state
  Listeners,  \* threads that run the listener: sleep, peek, read all
  Others,     \* threads that call the interface as they like
  Allowed,    \* what each of the others calls
  Size,       \* bytes of the messages of each printer
  Capacity,   \* bytes the pipe holds
  PeekSize,   \* bytes peek_n and read_n ask for
  MaxPrints,  \* bound: messages of a printer
  AutoReset,  \* listeners whose event is reset when they wake
  Late        \* listeners that may register when output is already there

Callers == Printers \cup Listeners \cup Others
Free == "free"

ASSUME PrintAssumption ==
  /\ Printers \cap (Listeners \cup Others) = {} /\ Listeners \cap Others = {}
  /\ Free \notin Callers
  /\ Size \in [Printers -> Nat \ {0}]
  /\ {Capacity, PeekSize, MaxPrints} \subseteq Nat \ {0}
  /\ Allowed \in [Others -> SUBSET {"read_all", "read_n", "peek_n"}]

VARIABLES
  pipe,        \* bytes written and not read
  written,     \* history: every byte written
  mutex,       \* owner of _class_mutex, or Free
  op,          \* thread -> the operation under way
  n,           \* thread -> bytes it still has to write or wants to read
  prints,      \* printer -> messages printed
  events,      \* listener -> its event is set
  registered,  \* _event_read, the listeners whose events are in it
  peeked,      \* thread -> what it peeked since its last read
  attached     \* the object is in the state's internal storage

printVars == <<pipe, written, mutex, op, n, prints, events, registered, peeked, attached>>

Bytes == Printers \X (1..MaxPrints)
Reads == {"read_all", "read_n"}

\* Operations that take the mutex, and where else a thread can be.
Locking == Reads \cup {"register", "remove", "print", "peek_n"}
Operations == Locking \cup {"none", "wait", "woken", "peeked"}

PrintTypes ==
  /\ pipe \in Seq(Bytes) /\ written \in Seq(Bytes) /\ Len(pipe) <= Capacity
  /\ mutex \in Callers \cup {Free}
  /\ op \in [Callers -> Operations] /\ n \in [Callers -> Nat]
  /\ prints \in [Printers -> 0..MaxPrints]
  /\ events \in [Listeners -> BOOLEAN] /\ registered \subseteq Listeners
  /\ peeked \in [Callers -> Seq(Bytes)]
  /\ attached \in BOOLEAN

PrintInit ==
  /\ pipe = <<>> /\ written = <<>> /\ mutex = Free
  /\ op = [t \in Callers |-> "none"] /\ n = [t \in Callers |-> 0]
  /\ prints = [p \in Printers |-> 0]
  /\ events = [r \in Listeners |-> FALSE] /\ registered = {}
  /\ peeked = [t \in Callers |-> <<>>]
  /\ attached = TRUE

Least(i, j) == IF i < j THEN i ELSE j

\* t goes on with an operation that wants k bytes.
Begins(t, o, k) == op' = [op EXCEPT ![t] = o] /\ n' = [n EXCEPT ![t] = k]

\* t leaves the mutex and goes on.
Leaves(t, o) == mutex' = Free /\ Begins(t, o, 0)

Inside(t, o) == mutex = t /\ op[t] = o

\* Where an operation leaves its caller: a listener goes on in its loop.
After(t, o) == IF t \in Listeners THEN o ELSE "none"

\* Mutant: the mutex is not waited for.
EnterAnyhow(t) ==
  /\ op[t] \in Locking /\ mutex # t
  /\ mutex' = t
  /\ UNCHANGED <<pipe, written, op, n, prints, events, registered, peeked, attached>>

\* __LOCK_MUTEX
Enter(t) ==
  /\ op[t] \in Locking /\ mutex = Free
  /\ mutex' = t
  /\ UNCHANGED <<pipe, written, op, n, prints, events, registered, peeked, attached>>

-----------------------------------------------------------------------------
(* print *)

\* _on_print_static up to the mutex: without an object nothing is printed.
BeginPrint(p) ==
  /\ op[p] = "none" /\ attached /\ prints[p] < MaxPrints
  /\ Begins(p, "print", Size[p])
  /\ UNCHANGED <<pipe, written, mutex, prints, events, registered, peeked, attached>>

\* WriteFile puts in the pipe what it has room for and waits for the rest.
WriteFile(p) ==
  /\ Inside(p, "print") /\ n[p] > 0 /\ Len(pipe) < Capacity
  /\ LET k == Least(n[p], Capacity - Len(pipe))
         bytes == [i \in 1..k |-> <<p, prints[p] + 1>>]
     IN /\ pipe' = pipe \o bytes /\ written' = written \o bytes
        /\ Begins(p, "print", n[p] - k)
  /\ UNCHANGED <<mutex, prints, events, registered, peeked, attached>>

\* Mutant: the listeners are not told.
SetNoEvents(p) ==
  /\ Inside(p, "print") /\ n[p] = 0
  /\ prints' = [prints EXCEPT ![p] = @ + 1]
  /\ Leaves(p, "none")
  /\ UNCHANGED <<pipe, written, events, registered, peeked, attached>>

\* The message is written: every registered event is set.
SetEvents(p) ==
  /\ Inside(p, "print") /\ n[p] = 0
  /\ events' = [r \in Listeners |-> events[r] \/ r \in registered]
  /\ prints' = [prints EXCEPT ![p] = @ + 1]
  /\ Leaves(p, "none")
  /\ UNCHANGED <<pipe, written, registered, peeked, attached>>

-----------------------------------------------------------------------------
(* reading *)

\* Who may call what: a listener peeks, then reads everything or a few bytes.
Calls(r, o) ==
  \/ r \in Others /\ attached /\ op[r] = "none" /\ o \in Allowed[r]
  \/ r \in Listeners /\ <<op[r], o>> \in ({"woken"} \X {"peek_n"}) \cup ({"peeked"} \X Reads)

\* read_all asks for the length without the mutex; it returns when that is 0.
ReadAll(r) ==
  /\ Calls(r, "read_all")
  /\ IF pipe = <<>> THEN Begins(r, After(r, "wait"), 0) ELSE Begins(r, "read_all", Len(pipe))
  /\ UNCHANGED <<pipe, written, mutex, prints, events, registered, peeked, attached>>

ReadN(r) ==
  /\ Calls(r, "read_n")
  /\ Begins(r, "read_n", PeekSize)
  /\ UNCHANGED <<pipe, written, mutex, prints, events, registered, peeked, attached>>

\* A listener asks first whether there is output, and sleeps if not.
PeekN(r) ==
  /\ Calls(r, "peek_n")
  /\ IF r \in Listeners /\ pipe = <<>> THEN Begins(r, "wait", 0) ELSE Begins(r, "peek_n", PeekSize)
  /\ UNCHANGED <<pipe, written, mutex, prints, events, registered, peeked, attached>>

\* What the next read of at most k bytes returns.
Front(k) == SubSeq(pipe, 1, Least(k, Len(pipe)))

\* ReadFile, which waits for a first byte.
ReadFile(r) ==
  /\ \E o \in Reads : Inside(r, o)
  /\ pipe # <<>>
  /\ pipe' = SubSeq(pipe, Least(n[r], Len(pipe)) + 1, Len(pipe))
  /\ peeked' = [peeked EXCEPT ![r] = <<>>]
  /\ Leaves(r, After(r, IF op[r] = "read_all" THEN "wait" ELSE "woken"))
  /\ UNCHANGED <<written, prints, events, registered, attached>>

\* PeekNamedPipe leaves the bytes where they are and does not wait.
PeekNamedPipe(r) ==
  /\ Inside(r, "peek_n")
  /\ peeked' = [peeked EXCEPT ![r] = Front(n[r])]
  /\ Leaves(r, After(r, "peeked"))
  /\ UNCHANGED <<pipe, written, prints, events, registered, attached>>

-----------------------------------------------------------------------------
(* listeners *)

\* A listener registers its event first of all and removes it at its end.
Register(r) ==
  /\ op[r] = "none" /\ r \notin registered /\ attached
  /\ r \in Late \/ (pipe = <<>> /\ \A p \in Printers : op[p] = "none")
  /\ Begins(r, "register", 0)
  /\ UNCHANGED <<pipe, written, mutex, prints, events, registered, peeked, attached>>

RegisterEventRead(r) ==
  /\ Inside(r, "register")
  /\ registered' = registered \cup {r}
  /\ Leaves(r, "wait")
  /\ UNCHANGED <<pipe, written, prints, events, peeked, attached>>

\* The listener stops when all is printed and read.
Remove(r) ==
  /\ op[r] = "wait" /\ pipe = <<>> /\ \A p \in Printers : prints[p] = MaxPrints
  /\ Begins(r, "remove", 0)
  /\ UNCHANGED <<pipe, written, mutex, prints, events, registered, peeked, attached>>

RemoveEventRead(r) ==
  /\ Inside(r, "remove")
  /\ registered' = registered \ {r}
  /\ Leaves(r, "none")
  /\ UNCHANGED <<pipe, written, prints, events, peeked, attached>>

\* The event wakes the listener.
Wake(r) ==
  /\ op[r] = "wait" /\ events[r]
  /\ events' = [events EXCEPT ![r] = r \notin AutoReset]
  /\ Begins(r, "woken", 0)
  /\ UNCHANGED <<pipe, written, mutex, prints, registered, peeked, attached>>

\* The client deletes the object when nobody is using it; the pipe goes with it.
Delete ==
  /\ attached /\ \A t \in Callers : op[t] = "none"
  /\ attached' = FALSE /\ pipe' = <<>>
  /\ UNCHANGED <<written, mutex, op, n, prints, events, registered, peeked>>

PrinterStep(p) == Enter(p) \/ BeginPrint(p) \/ WriteFile(p) \/ SetEvents(p)
ReaderStep(r) ==
  Enter(r) \/ ReadAll(r) \/ ReadN(r) \/ PeekN(r) \/ ReadFile(r) \/ PeekNamedPipe(r)
ListenerStep(r) ==
  ReaderStep(r) \/ Wake(r) \/ RegisterEventRead(r) \/ RemoveEventRead(r)

PrintNext ==
  \/ \E p \in Printers : PrinterStep(p)
  \/ \E r \in Others : ReaderStep(r)
  \/ \E r \in Listeners : ListenerStep(r) \/ Register(r) \/ Remove(r)
  \/ Delete

\* A thread inside a call goes on whenever it can again and again (the system
\* hands the mutex to those who wait), and a listener goes on for ever; nobody
\* has to print, to call the interface or to begin to listen.
Goes(t) ==
  \/ t \in Printers /\ (Enter(t) \/ WriteFile(t) \/ SetEvents(t))
  \/ t \in Others /\ (Enter(t) \/ ReadFile(t) \/ PeekNamedPipe(t))
  \/ t \in Listeners /\ ListenerStep(t)

PrintSpec == PrintInit /\ [][PrintNext]_printVars /\ \A t \in Callers : SF_printVars(Goes(t))

-----------------------------------------------------------------------------
(* Properties. *)

\* A message stands in the output in one piece, also when it had to wait for
\* room in the middle and others print meanwhile.
MessagesWhole ==
  \A i, j \in 1..Len(written) :
    i < j /\ written[i] = written[j] => \A k \in i..j : written[k] = written[i]

\* A reader never waits for output with the mutex in hand, which would keep
\* every printer from writing it.  It needs a single reader, and one that uses
\* read_all: two readers, or read_n on an empty pipe, stop everybody.
NeverWaitsForOutput ==
  \A r \in Listeners \cup Others, o \in Reads : Inside(r, o) => pipe # <<>>

\* The check the listener of the unit tests makes: what it has peeked is what
\* read_all then begins with.
PeekMatchesRead ==
  [][\A r \in Listeners, o \in Reads : Inside(r, o) /\ mutex' = Free =>
       \A i \in 1..Len(peeked[r]) : i <= Len(Front(n[r])) /\ Front(n[r])[i] = peeked[r][i]]_printVars

\* A print in front of a full pipe: nobody can take the mutex to read.
Full == \E p \in Printers : Inside(p, "print") /\ n[p] > 0 /\ Len(pipe) = Capacity

\* Every message printed with a listener at work is read, and its print
\* returns, except when the pipe fills up.
EveryPrintRead ==
  \A b \in Bytes :
    (op[b[1]] = "print" /\ prints[b[1]] + 1 = b[2] /\ registered # {})
      ~> (Full \/ (prints[b[1]] >= b[2] /\ \A i \in 1..Len(pipe) : pipe[i] # b))
=============================================================================
