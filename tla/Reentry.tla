------------------------------- MODULE Reentry -------------------------------
(***************************************************************************)
(* Natives that are left by an exception or re-entered by a callback.      *)
(* Arrays and sockets keep their contents in a RefCell: a native borrows   *)
(* it, and a conflicting borrow is a Rust panic that aborts the process at *)
(* the extern "C" boundary.  Some natives keep the borrow while compiled   *)
(* code runs below them (ffi.rs), the collector borrows every array it     *)
(* traces (gc.rs), and exc.rs leaves natives by longjmp, which drops no    *)
(* borrow and no DeferGuard.  (A panic in a marking thread hangs the phase *)
(* instead, since the other workers wait for it; both count as an abort.)  *)
(*                                                                         *)
(* The contents of the cells are left out: a call that finds its borrow    *)
(* free and calls nothing back changes nothing here.                       *)
(***************************************************************************)
EXTENDS Integers, Sequences, FiniteSets

CONSTANTS
    Arrays,         \* live VsArrays
    Streams,        \* VsSockets of the language type Socket
    Listeners,      \* VsSockets of the language type ServerSocket
    MaxFrames,      \* bound: nested natives and try statements
    MaxLeaks        \* bound: borrows one cell has lost to exceptions

Sockets == Streams \cup Listeners
Cells == Arrays \cup Sockets

ASSUME CellsAssumption ==
    /\ IsFiniteSet(Cells)
    /\ Arrays \cap Sockets = {} /\ Streams \cap Listeners = {}
ASSUME BoundsAssumption == MaxFrames \in Nat /\ MaxLeaks \in Nat

VARIABLES
    frames,     \* open natives and try statements, innermost last
    handlers,   \* exc.rs HANDLERS: where each jmp_buf lives, saved depth
    flag,       \* RefCell borrow flag: -1 mutable, else the shared borrows
    defer,      \* Heap.defer
    pending,    \* PENDING
    closed,     \* sockets whose kind is Closed
    status,     \* "running", "exited", or where the process aborted
    leaked      \* history: borrows whose guard a longjmp skipped

vars == <<frames, handlers, flag, defer, pending, closed, status, leaked>>

Excl == -1
Shared == 1
Released == 0

(* Natives that run compiled code below themselves, with the borrow of      *)
(* their array and the DeferGuard they keep meanwhile.                      *)
Natives == {"join", "sort", "sort_with", "iterate", "apply"}
KeptBorrow(op) ==
    CASE op = "join" -> Shared                     \* join_units on data.borrow()
      [] op \in {"sort", "sort_with"} -> Excl      \* sort on data.borrow_mut()
      [] OTHER -> Released                         \* the elements were cloned
Guarded(op) == op \in {"sort_with", "iterate", "apply"}

Frames == [op : Natives, cell : Arrays] \cup [op : {"try"}]
IsNative(f) == f.op # "try"

Aborts == {"array", "socket", "safepoint", "System.gc"}

(* The borrows of c that frames lo..hi keep, in the encoding of the flag.   *)
Keeping(c, lo, hi, how) ==
    {i \in lo..hi : IsNative(frames[i]) /\ frames[i].cell = c /\ KeptBorrow(frames[i].op) = how}
Kept(c, lo, hi) ==
    Cardinality(Keeping(c, lo, hi, Shared)) - Cardinality(Keeping(c, lo, hi, Excl))

TypeOK ==
    /\ frames \in Seq(Frames)
    /\ handlers \in Seq([at : 1..MaxFrames, depth : 0..MaxFrames])
    /\ flag \in [Cells -> Excl..(MaxFrames + MaxLeaks)]
    /\ defer \in 0..MaxFrames
    /\ pending \in BOOLEAN
    /\ closed \in SUBSET Sockets
    /\ status \in {"running", "exited"} \cup Aborts
    /\ leaked \in [Cells -> Excl..MaxLeaks]

Init ==
    /\ frames = <<>>
    /\ handlers = <<>>
    /\ flag = [c \in Cells |-> 0]
    /\ defer = 0
    /\ pending = FALSE
    /\ closed = {}
    /\ status = "running"
    /\ leaked = [c \in Cells |-> 0]

Running == status = "running"
Depth == Len(frames)
Top == frames[Depth]

borrowOk(c) == flag[c] # Excl           \* RefCell::borrow
borrowMutOk(c) == flag[c] = 0           \* RefCell::borrow_mut
CanBorrow(c, how) == IF how = Excl THEN borrowMutOk(c) ELSE borrowOk(c)

Abort(where) ==
    /\ status' = where
    /\ UNCHANGED <<frames, handlers, flag, defer, pending, closed, leaked>>

-----------------------------------------------------------------------------
(* ---- arrays --------------------------------------------------------------- *)

(* Reads (length, index, slice, indexOf, concat, for..in) and writes        *)
(* (length, index, push, pop, shift, unshift, splice, reverse) that find    *)
(* the array in use.                                                        *)
ReadArray(a) == Running /\ ~borrowOk(a) /\ Abort("array")
WriteArray(a) == Running /\ ~borrowMutOk(a) /\ Abort("array")

(* A native that runs compiled code: a comparator, a callback, or the       *)
(* toString of an element (join and the default sort).                      *)
EnterNative(op, a) ==
    /\ Running
    /\ IF CanBorrow(a, KeptBorrow(op))
       THEN /\ Depth < MaxFrames
            /\ frames' = Append(frames, [op |-> op, cell |-> a])
            /\ flag' = [flag EXCEPT ![a] = @ + KeptBorrow(op)]
            /\ defer' = IF Guarded(op) THEN defer + 1 ELSE defer
            /\ UNCHANGED <<handlers, pending, closed, status, leaked>>
       ELSE Abort("array")

(* Faulty variants: a native that forgets its borrow, or its guard.         *)
ReturnKeepsBorrow ==
    /\ Running /\ Depth > 0 /\ IsNative(Top)
    /\ frames' = SubSeq(frames, 1, Depth - 1)
    /\ defer' = IF Guarded(Top.op) THEN defer - 1 ELSE defer
    /\ UNCHANGED <<handlers, flag, pending, closed, status, leaked>>

ReturnDropsGuardOnly ==
    /\ Running /\ Depth > 0 /\ IsNative(Top)
    /\ \/ /\ frames' = SubSeq(frames, 1, Depth - 1)
          /\ flag' = [flag EXCEPT ![Top.cell] = @ - KeptBorrow(Top.op)]
       \/ UNCHANGED <<frames, flag>>
    /\ defer' = IF Guarded(Top.op) THEN defer - 1 ELSE defer
    /\ UNCHANGED <<handlers, pending, closed, status, leaked>>

(* It returns: the borrow and the guard are dropped.                        *)
ReturnNative ==
    /\ Running /\ Depth > 0 /\ IsNative(Top)
    /\ frames' = SubSeq(frames, 1, Depth - 1)
    /\ flag' = [flag EXCEPT ![Top.cell] = @ - KeptBorrow(Top.op)]
    /\ defer' = IF Guarded(Top.op) THEN defer - 1 ELSE defer
    /\ UNCHANGED <<handlers, pending, closed, status, leaked>>

-----------------------------------------------------------------------------
(* ---- exceptions ------------------------------------------------------------ *)

push_handler ==
    /\ Running /\ Depth < MaxFrames
    /\ frames' = Append(frames, [op |-> "try"])
    /\ handlers' = Append(handlers, [at |-> Depth + 1, depth |-> defer])
    /\ UNCHANGED <<flag, defer, pending, closed, status, leaked>>

pop_handler ==
    /\ Running /\ Depth > 0 /\ Top.op = "try"
    /\ frames' = SubSeq(frames, 1, Depth - 1)
    /\ handlers' = SubSeq(handlers, 1, Len(handlers) - 1)
    /\ UNCHANGED <<flag, defer, pending, closed, status, leaked>>

(* A faulty variant: the depth saved by push_handler is not put back.       *)
unwindKeepsDepth(own) ==
    LET h == handlers[Len(handlers)]
        lost == [c \in Cells |-> own[c] + Kept(c, h.at, Depth)]
    IN  /\ \A c \in Cells : leaked[c] + lost[c] <= MaxLeaks
        /\ handlers' = SubSeq(handlers, 1, Len(handlers) - 1)
        /\ frames' = SubSeq(frames, 1, h.at - 1)
        /\ flag' = [c \in Cells |-> flag[c] + own[c]]
        /\ leaked' = [c \in Cells |-> leaked[c] + lost[c]]
        /\ UNCHANGED <<defer, pending, closed, status>>

(* throw with a handler: pop it, restore its depth, longjmp.  The borrows   *)
(* of the natives skipped, own among them, stay in the flags for good.      *)
unwind(own) ==
    LET h == handlers[Len(handlers)]
        lost == [c \in Cells |-> own[c] + Kept(c, h.at, Depth)]
    IN  /\ \A c \in Cells : leaked[c] + lost[c] <= MaxLeaks
        /\ handlers' = SubSeq(handlers, 1, Len(handlers) - 1)
        /\ frames' = SubSeq(frames, 1, h.at - 1)
        /\ defer' = h.depth
        /\ flag' = [c \in Cells |-> flag[c] + own[c]]
        /\ leaked' = [c \in Cells |-> leaked[c] + lost[c]]
        /\ UNCHANGED <<pending, closed, status>>

(* exc::throw from compiled code or from a native that borrows own.         *)
throw(own) ==
    \/ handlers # <<>> /\ unwind(own)
    \/ /\ handlers = <<>>
       /\ status' = "exited"
       /\ UNCHANGED <<frames, handlers, flag, defer, pending, closed, leaked>>

NoBorrow == [c \in Cells |-> 0]
Borrowing(s, how) == [c \in Cells |-> IF c = s THEN how ELSE 0]

(* A throw statement, a TypeError of a native that borrows nothing, ...     *)
Throw == Running /\ throw(NoBorrow)

-----------------------------------------------------------------------------
(* ---- sockets --------------------------------------------------------------- *)

(* write, readLine, read: a borrow_mut that lives to the end of the call,   *)
(* also when the call throws, for a closed socket or an I/O error.          *)
StreamOp(s) ==
    /\ Running
    /\ IF borrowMutOk(s) THEN throw(Borrowing(s, Excl)) ELSE Abort("socket")

(* accept: the same with a shared borrow.                                   *)
accept(s) ==
    /\ Running
    /\ IF borrowOk(s) THEN throw(Borrowing(s, Shared)) ELSE Abort("socket")

(* localPort has a value also for a closed socket.                          *)
local_port(s) == Running /\ ~borrowOk(s) /\ Abort("socket")

close(s) ==
    /\ Running
    /\ IF borrowMutOk(s)
       THEN /\ closed' = closed \cup {s}
            /\ UNCHANGED <<frames, handlers, flag, defer, pending, status, leaked>>
       ELSE Abort("socket")

-----------------------------------------------------------------------------
(* ---- collection ------------------------------------------------------------ *)

(* Any allocation may cross the threshold.                                  *)
CrossThreshold ==
    /\ Running /\ ~pending
    /\ pending' = TRUE
    /\ UNCHANGED <<frames, handlers, flag, defer, closed, status, leaked>>

(* The arrays that natives on the stack work on are reachable; others may   *)
(* be.  trace_children borrows each array it traces.                        *)
InUse == {frames[i].cell : i \in {j \in 1..Depth : IsNative(frames[j])}}

collect(where) ==
    \E traced \in SUBSET Arrays :
        /\ InUse \subseteq traced
        /\ IF \A a \in traced : borrowOk(a)
           THEN /\ pending' = FALSE
                /\ UNCHANGED <<frames, handlers, flag, defer, closed, status, leaked>>
           ELSE Abort(where)

(* A faulty variant: the depth is not tested.                               *)
safepointIgnoresDefer == Running /\ pending /\ collect("safepoint")

safepoint == Running /\ pending /\ defer = 0 /\ collect("safepoint")

SystemGc == Running /\ collect("System.gc")

-----------------------------------------------------------------------------

Next ==
    \/ \E a \in Arrays : ReadArray(a)
    \/ \E a \in Arrays : WriteArray(a)
    \/ \E op \in Natives, a \in Arrays : EnterNative(op, a)
    \/ ReturnNative
    \/ push_handler
    \/ pop_handler
    \/ Throw
    \/ \E s \in Streams : StreamOp(s)
    \/ \E s \in Listeners : accept(s)
    \/ \E s \in Sockets : local_port(s)
    \/ \E s \in Sockets : close(s)
    \/ CrossThreshold
    \/ safepoint
    \/ SystemGc

Spec == Init /\ [][Next]_vars

-----------------------------------------------------------------------------

(* The flag of every cell is what the natives on the stack still hold plus  *)
(* what exceptions have leaked, and a mutable borrow is alone: normal       *)
(* returns, nested callbacks and handlers lose or invent no borrow.         *)
BorrowsAccounted ==
    \A c \in Cells :
        /\ flag[c] = leaked[c] + Kept(c, 1, Depth)
        /\ Cardinality(Keeping(c, 1, Depth, Excl)) + (IF leaked[c] = Excl THEN 1 ELSE 0) <= 1
        /\ flag[c] = Excl => Keeping(c, 1, Depth, Shared) = {} /\ leaked[c] <= 0

(* Every jmp_buf on HANDLERS belongs to a try statement still on the stack, *)
(* in order, saved with the depth of the guards below it: a throw lands in  *)
(* a live frame, and leaves exactly the guards outside that frame.          *)
HandlersAreLive ==
    /\ {handlers[k].at : k \in 1..Len(handlers)} = {i \in 1..Depth : ~IsNative(frames[i])}
    /\ \A k \in 1..Len(handlers) :
          /\ \A m \in 1..(k - 1) : handlers[m].at < handlers[k].at
          /\ handlers[k].depth =
                Cardinality({i \in 1..(handlers[k].at - 1) : Guarded(frames[i].op)})

(* What can abort the process: a socket, only after an exception left one   *)
(* of its operations; an array operation, only after that or below a native *)
(* that keeps a borrow, so never because of iterate or apply; a safepoint,  *)
(* only after that or below the default sort, so never because of a sort    *)
(* with a comparator that is still running.                                 *)
AbortsExplained ==
    /\ status = "socket" => \E s \in Sockets : leaked[s] # 0
    /\ status = "array" =>
          \E a \in Arrays : leaked[a] # 0 \/ Kept(a, 1, Depth) # 0
    /\ status = "safepoint" =>
          \E a \in Arrays : \/ leaked[a] = Excl
                            \/ \E i \in 1..Depth : frames[i] = [op |-> "sort", cell |-> a]

=============================================================================
