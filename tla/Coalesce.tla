----------------------------- MODULE Coalesce ------------------------------
(***************************************************************************)
(* What an incremental didChange carries: the editor's operations as LSP   *)
(* changes (compute_lsp_changes in crates/lsp_framework/src/changes, with  *)
(* the positions of crates/lsp_framework/src/position) and the merging of  *)
(* a batch of them (crates/editor/src/lsp/coalesce).                       *)
(*                                                                         *)
(* A text is a sequence of characters.  Units says how many code units of  *)
(* the negotiated encoding a character takes.  u32 arithmetic wraps at     *)
(* U32_MAX + 1, as in a release build, whatever small value that has here. *)
(***************************************************************************)
EXTENDS Integers, Sequences, FiniteSets, FiniteSetsExt

CONSTANTS
  NL,           \* the newline
  Units,        \* character |-> code units
  U32_MAX,
  Inserts,      \* the texts that are inserted
  MultiLine,    \* whether a deletion may span lines
  Base,         \* the document before the batch
  MaxBatch      \* bound on the operations of a batch

(* char_to_lsp_position and back.  A server takes a column past the end of *)
(* the line for the end of the line.                                       *)
Newlines(s) == {i \in DOMAIN s : s[i] = NL}
LineStart(s) == Max(Newlines(s) \cup {0})
Width(s) == Len(s) + Cardinality({i \in DOMAIN s : Units[s[i]] = 2})

char_to_lsp_position(t, idx) ==
  LET before == SubSeq(t, 1, idx)
  IN  [line |-> Cardinality(Newlines(before)),
       character |-> Width(SubSeq(before, LineStart(before) + 1, idx))]

lsp_position_to_char(t, pos) ==
  Max({i \in 0 .. Len(t) : LET p == char_to_lsp_position(t, i)
                           IN  p.line = pos.line /\ p.character <= pos.character})

(* What the server makes of a change, and of a batch of them.              *)
Apply(t, c) ==
  SubSeq(t, 1, lsp_position_to_char(t, c.start)) \o c.text
    \o SubSeq(t, lsp_position_to_char(t, c.end) + 1, Len(t))

ApplyAll(t, cs) ==
  LET after[n \in 0 .. Len(cs)] == IF n = 0 THEN t ELSE Apply(after[n - 1], cs[n])
  IN  after[Len(cs)]
-----------------------------------------------------------------------------
(* compute_lsp_changes: an operation deletes from .. to, or inserts a      *)
(* text; each change is in the coordinates the ones before it left.        *)
Deletes(t) ==
  {d \in [from : 0 .. Len(t), to : 0 .. Len(t), text : {<<>>}] :
     d.from < d.to /\ (MultiLine \/ Newlines(SubSeq(t, d.from + 1, d.to)) = {})}

Operations(t) == Deletes(t) \cup {[from |-> i, to |-> i, text |-> s] : i \in 0 .. Len(t), s \in Inserts}

compute_lsp_change(t, op) ==
  [start |-> char_to_lsp_position(t, op.from), end |-> char_to_lsp_position(t, op.to), text |-> op.text]

Edited(t, op) == SubSeq(t, 1, op.from) \o op.text \o SubSeq(t, op.to + 1, Len(t))
-----------------------------------------------------------------------------
(* advance_position counts characters, not code units.                     *)
advance_position(pos, s) ==
  IF Newlines(s) = {} THEN [pos EXCEPT !.character = @ + Len(s)]
  ELSE [line |-> pos.line + Cardinality(Newlines(s)), character |-> Len(s) - LineStart(s)]

range_char_count(c) ==
  IF c.start.line = c.end.line THEN c.end.character - c.start.character ELSE U32_MAX

is_insert(c) == c.start = c.end
is_delete(c) == c.text = <<>> /\ ~is_insert(c)


try_merge(prev, curr) ==
  LET deleted == range_char_count(curr)
      far == [prev.start EXCEPT !.character =
                (@ + ((range_char_count(prev) + deleted) % (U32_MAX + 1))) % (U32_MAX + 1)]
      same == prev.start = curr.start
  IN  IF is_insert(prev) /\ is_insert(curr) /\ advance_position(prev.start, prev.text) = curr.start
      THEN <<[prev EXCEPT !.text = @ \o curr.text]>>
      ELSE IF is_delete(prev) /\ is_insert(curr) /\ same THEN <<[prev EXCEPT !.text = curr.text]>>
      ELSE IF is_delete(prev) /\ is_delete(curr) /\ same THEN <<[prev EXCEPT !.end = far]>>
      ELSE IF is_insert(prev) /\ is_delete(curr) /\ same /\ deleted <= Len(prev.text)
      THEN <<[prev EXCEPT !.text = SubSeq(@, deleted + 1, Len(@))]>>
      ELSE <<>>

coalesce_changes(cs) ==
  LET add(out, c) ==
        LET merged == IF out = <<>> THEN <<>> ELSE try_merge(out[Len(out)], c)
        IN  IF merged = <<>> THEN Append(out, c) ELSE SubSeq(out, 1, Len(out) - 1) \o merged
      after[n \in 0 .. Len(cs)] == IF n = 0 THEN <<>> ELSE add(after[n - 1], cs[n])
  IN  after[Len(cs)]
-----------------------------------------------------------------------------
(* Every batch of at most MaxBatch operations, with the text it leads to.  *)
Batches ==
  LET extend(x) == {[text |-> Edited(x.text, op), changes |-> Append(x.changes, compute_lsp_change(x.text, op))] :
                      op \in Operations(x.text)}
      upto[n \in 0 .. MaxBatch] ==
        IF n = 0 THEN {[text |-> Base, changes |-> <<>>]}
        ELSE upto[n - 1] \cup UNION {extend(x) : x \in upto[n - 1]}
  IN  upto[MaxBatch]

(* Where changes may be merged, and what the merged change deletes and     *)
(* inserts, is worked out from positions that each refer to another state  *)
(* of the document; the merged ones have the effect of the single ones.    *)
CoalesceIsSound == \A x \in Batches : ApplyAll(Base, coalesce_changes(x.changes)) = x.text
=============================================================================
