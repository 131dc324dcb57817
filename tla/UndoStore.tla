----------------------------- MODULE UndoStore -----------------------------
(***************************************************************************)
(* The undo history of one document (core/undo_store/mod.rs): two stacks   *)
(* of steps with cached byte and transaction counters, the view that owns  *)
(* the open group, and the position the saved text has in the history.     *)
(*                                                                         *)
(* A text is abstracted to an identity.  A transaction is the pair of the  *)
(* text it was made on and the text it gives: applied to any other text it *)
(* gives Garbled.  Its weight stands for the bytes of the pair of forward  *)
(* and inverse transactions (approx_transaction_bytes of both).            *)
(***************************************************************************)
EXTENDS Integers, Sequences

CONSTANTS
    MAX_UNDO,         \* most steps of a stack
    MAX_UNDO_BYTES,   \* most bytes of both stacks
    None              \* Option::None of an owner or of a clean position

ASSUME UndoLimits == MAX_UNDO \in Nat /\ MAX_UNDO_BYTES \in Nat /\ None \notin Nat

Garbled == -1

Tx(from, to, weight) == [from |-> from, to |-> to, weight |-> weight]

\* Transaction::apply, of one transaction and of a sequence in order; and the
\* inverse transactions of a step, which are applied last to first.
Apply(text, tx) == IF text = tx.from THEN tx.to ELSE Garbled
ApplyAll(text, txs) ==
    LET after[k \in 0 .. Len(txs)] == IF k = 0 THEN text ELSE Apply(after[k - 1], txs[k])
    IN  after[Len(txs)]
Inverses(step) ==
    [k \in DOMAIN step |-> LET tx == step[Len(step) + 1 - k] IN Tx(tx.to, tx.from, tx.weight)]

\* The sums of the first k of some numbers, for every k.
Sums(nums) ==
    LET sum[k \in 0 .. Len(nums)] == IF k = 0 THEN 0 ELSE sum[k - 1] + nums[k]
    IN  sum
Total(nums) == Sums(nums)[Len(nums)]

\* UndoStep.bytes, redo.len() = undo.len(), and the same for a whole stack.
StepBytes(step) == Total([i \in DOMAIN step |-> step[i].weight])
StackBytes(stack) == Total([i \in DOMAIN stack |-> StepBytes(stack[i])])
StackTxs(stack) == Total([i \in DOMAIN stack |-> Len(stack[i])])

Last(s) == s[Len(s)]
Front(s) == SubSeq(s, 1, Len(s) - 1)

SaturatingSub(a, b) == IF a > b THEN a - b ELSE 0

NewStore ==
    [undo |-> << >>, redo |-> << >>, undoBytes |-> 0, redoBytes |-> 0,
     undoTx |-> 0, redoTx |-> 0, head |-> 0, clean |-> None, owner |-> None]

\* Mutant of DropUndo: the transactions of evicted steps stay counted.
DropUndoKeepsTxs(s, k) ==
    [s EXCEPT !.undo = SubSeq(@, k + 1, Len(@)),
              !.undoBytes = SaturatingSub(@, StackBytes(SubSeq(s.undo, 1, k)))]

\* pop_front of the k oldest steps of a stack, with its counters.
DropUndo(s, k) ==
    LET gone == SubSeq(s.undo, 1, k)
    IN  [s EXCEPT !.undo = SubSeq(@, k + 1, Len(@)),
                  !.undoBytes = SaturatingSub(@, StackBytes(gone)),
                  !.undoTx = @ - StackTxs(gone)]
DropRedo(s, k) ==
    LET gone == SubSeq(s.redo, 1, k)
    IN  [s EXCEPT !.redo = SubSeq(@, k + 1, Len(@)),
                  !.redoBytes = SaturatingSub(@, StackBytes(gone)),
                  !.redoTx = @ - StackTxs(gone)]

EnforceDepth(s) ==
    DropRedo(DropUndo(s, SaturatingSub(Len(s.undo), MAX_UNDO)),
             SaturatingSub(Len(s.redo), MAX_UNDO))

\* The loop of enforce_bytes: the oldest redo steps go first, then the oldest
\* undo steps, until the counters are within the limit or both stacks are empty.
EnforceBytes(s) ==
    LET Over(t) == t.undoBytes + t.redoBytes > MAX_UNDO_BYTES
        Least(S) == CHOOSE k \in S : \A j \in S : k <= j
        r == Least({k \in 0 .. Len(s.redo) : ~Over(DropRedo(s, k)) \/ k = Len(s.redo)})
        t == DropRedo(s, r)
        u == Least({k \in 0 .. Len(t.undo) : ~Over(DropUndo(t, k)) \/ k = Len(t.undo)})
    IN  DropUndo(t, u)

InvalidateCleanPosAfterEviction(s) ==
    IF s.clean # None /\ (s.clean < SaturatingSub(s.head, s.undoTx) \/ s.clean > s.head + s.redoTx)
    THEN [s EXCEPT !.clean = None]
    ELSE s

EnforceLimits(s) == InvalidateCleanPosAfterEviction(EnforceBytes(EnforceDepth(s)))

\* Mutant of ClearRedo: only the counters are reset.
ClearRedoCounters(s) == [s EXCEPT !.redoBytes = 0, !.redoTx = 0]

ClearRedo(s) == [s EXCEPT !.redo = << >>, !.redoBytes = 0, !.redoTx = 0]

\* Mutant of LeaveBranch: the saved position survives.
LeaveBranchClean(s) == s

\* The first lines of record_transaction: a new edit leaves the branch of the
\* history that holds the saved text.
LeaveBranch(s) ==
    IF s.redo # << >> /\ s.clean # None /\ s.clean > s.head THEN [s EXCEPT !.clean = None] ELSE s

Merges(s, merge) == merge /\ s.undo # << >>
PushTx(stack, tx, merges) ==
    IF merges THEN [stack EXCEPT ![Len(stack)] = Append(stack[Len(stack)], tx)]
    ELSE Append(stack, <<tx>>)

RecordTransaction(s, tx, merge) ==
    LET b == LeaveBranch(s)
    IN  EnforceLimits(ClearRedo(
            [b EXCEPT !.undo = PushTx(b.undo, tx, Merges(b, merge)),
                      !.undoBytes = @ + tx.weight,
                      !.head = @ + 1,
                      !.undoTx = @ + 1]))

\* TxnUndoStore::undo and redo, and what they do to the text: inverse
\* transactions in reverse order, or forward ones in order.  The open group ends
\* even when there is no step.
UndoStep(s) ==
    LET step == Last(s.undo)
    IN  IF s.undo = << >> THEN [s EXCEPT !.owner = None]
        ELSE EnforceLimits(
            [s EXCEPT !.owner = None,
                      !.undo = Front(@),
                      !.undoBytes = SaturatingSub(@, StepBytes(step)),
                      !.undoTx = @ - Len(step),
                      !.head = @ - Len(step),
                      !.redoBytes = @ + StepBytes(step),
                      !.redoTx = @ + Len(step),
                      !.redo = Append(@, step)])
UndoText(s, text) == IF s.undo = << >> THEN text ELSE ApplyAll(text, Inverses(Last(s.undo)))

RedoStep(s) ==
    LET step == Last(s.redo)
    IN  IF s.redo = << >> THEN [s EXCEPT !.owner = None]
        ELSE EnforceLimits(
            [s EXCEPT !.owner = None,
                      !.redo = Front(@),
                      !.redoBytes = SaturatingSub(@, StepBytes(step)),
                      !.redoTx = @ - Len(step),
                      !.head = @ + Len(step),
                      !.undoBytes = @ + StepBytes(step),
                      !.undoTx = @ + Len(step),
                      !.undo = Append(@, step)])
RedoText(s, text) == IF s.redo = << >> THEN text ELSE ApplyAll(text, Last(s.redo))

\* UndoBackend::record_commit: whether the commit joins the open group, and who
\* owns the group afterwards.  Boundary, the third policy, is never requested.
MergesGroup(s, policy, view) == policy = "MergeWithCurrentGroup" /\ s.owner = view
RecordCommit(s, tx, policy, view) ==
    [RecordTransaction(s, tx, MergesGroup(s, policy, view)) EXCEPT
        !.owner = IF policy = "MergeWithCurrentGroup" THEN view ELSE None]
\* Mutant of StepCreated: every commit counts as a step.
StepCreatedAlways(s, policy, view) == TRUE

\* The Boolean record_commit returns: a step of its own was created.
StepCreated(s, policy, view) == ~Merges(s, MergesGroup(s, policy, view))

IsModified(s) == s.clean # s.head
SetClean(s) == [s EXCEPT !.clean = s.head]

\* The texts before the steps of an undo stack and after those of a redo stack.
Firsts(stack) == [i \in DOMAIN stack |-> stack[i][1].from]
Lasts(stack) == [i \in DOMAIN stack |-> Last(stack[i]).to]
\* Two sequences are the same from their ends on, as far as both go.
Agree(s, t) == \A i \in 0 .. Len(s) - 1 : i < Len(t) => s[Len(s) - i] = t[Len(t) - i]
=============================================================================
