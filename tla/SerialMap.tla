------------------------------ MODULE SerialMap -------------------------------
(***************************************************************************)
(* What the two concurrent helpers promise (http.py map_concurrent,        *)
(* cli.py _run_reads_in_serial_order): the outcome of calling the items    *)
(* one after another, in their order.  "results ALWAYS in input order"; an *)
(* exception is that of the first item that fails; a tolerated one leaves  *)
(* None in its slot.  Threads, queues and requests do not appear here.     *)
(***************************************************************************)
EXTENDS Integers, Sequences

CONSTANTS
    N,          \* the number of items, a natural number
    None        \* the slot of a tolerated failure; not returned yet; no number

VARIABLES
    tolerate,   \* tolerate_errors
    results,    \* the results so far: the value of item i is written i
    returned    \* None, or what the caller gets

Returns(list) == [raised |-> 0, list |-> list]
Raises(i) == [raised |-> i, list |-> <<>>]

Init ==
    /\ tolerate \in BOOLEAN
    /\ results = <<>>
    /\ returned = None

Calling(i) == returned = None /\ Len(results) + 1 = i /\ i <= N

Succeed ==
    \E i \in 1 .. N :
        /\ Calling(i)
        /\ results' = Append(results, i)
        /\ UNCHANGED <<tolerate, returned>>

Fail ==
    \E i \in 1 .. N :
        /\ Calling(i)
        /\ IF tolerate
             THEN results' = Append(results, None) /\ UNCHANGED returned
             ELSE returned' = Raises(i) /\ UNCHANGED results
        /\ UNCHANGED tolerate

Return ==
    /\ returned = None
    /\ Len(results) = N
    /\ returned' = Returns(results)
    /\ UNCHANGED <<tolerate, results>>

Next == Succeed \/ Fail \/ Return

Spec == Init /\ [][Next]_<<tolerate, results, returned>>

=============================================================================
