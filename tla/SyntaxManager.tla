-------------------------- MODULE SyntaxManager --------------------------
(***************************************************************************)
(* The syntax manager (crates/syntax) for one document: edits update the   *)
(* resident trees at once or leave work, every drawn frame runs the        *)
(* pipeline normalize, install, gate, bootstrap, plan, spawn, and parse    *)
(* tasks run on blocking threads whose results arrive in any order.        *)
(*                                                                         *)
(* A text is a name with a length, counted in units of 8 KiB; a tree is    *)
(* the text and the version it was parsed from.  Time is what the code     *)
(* compares it with: whether a debounce, a cooldown or a retention time is *)
(* over.  What users do and what goes wrong in the parsers is bounded.     *)
(***************************************************************************)
EXTENDS Integers, Sequences, Functions, FiniteSets

CONSTANTS
  Texts, Bytes, InitText,   \* the texts of the document, their lengths, the first one
  Edits,                    \* the pairs of texts that one edit connects
  Langs, Viewports,         \* languages; the byte ranges a view may show,
  InitView,                 \* and the one it shows first
  max_concurrency, viewport_reserve,
  FULL_TREE_MEMORY_CAP, CacheCap,
  MaxEvents,                \* bound on what users do and on the parsers' faults
  None, Torn, Garbled       \* no value; trees that need not be the parse of any text

ASSUME SyntaxAssumption ==
  /\ Bytes \in [Texts -> Nat] /\ viewport_reserve \in 0 .. max_concurrency - 1
  /\ FULL_TREE_MEMORY_CAP \in Nat \ {0} /\ CacheCap \in Nat \ {0}
  /\ InitText \in Texts /\ None \notin {"eager", "disabled"}
  /\ Viewports \subseteq Nat \X Nat /\ InitView \in Nat \X Nat /\ None \notin Nat \X Nat
  /\ None \notin [ver : Nat, of : Texts \cup {Torn}, lang : Langs \cup {None}]

VARIABLES
  hist,        \* the text at every version so far
  language,    \* Document::language_id
  hot, view,   \* SyntaxHotness of the document and what its view shows
  entry,       \* the DocEntry: slot and sched
  tasks,       \* spawned parses that the collector still holds
  events       \* how many events there were

vars == <<hist, language, hot, view, entry, tasks, events>>

version == Len(hist) - 1
text == hist[Len(hist)]
-----------------------------------------------------------------------------
(* TieredSyntaxPolicy::default                                             *)
TierForBytes(n) == IF n <= 32 THEN "S" ELSE IF n <= 128 THEN "M" ELSE "L"
Injections(tier) == IF tier = "L" THEN "disabled" ELSE "eager"
lookbehind == 1
lookahead == 1
window_max == 16
span_cap == 12
min_stable_polls == 2

Least(a, b) == IF a < b THEN a ELSE b
Greatest(a, b) == IF a < b THEN b ELSE a

(* compute_viewport_key, and the windows of plan_stage_a and plan_stage_b. *)
ViewportKey(vp) == (vp[1] \div (window_max \div 2)) * (window_max \div 2)
Capped(from, to) == <<from, Least(to, from + window_max)>>
StageAWindow(vp, bytes) ==
  LET key == ViewportKey(vp)
  IN  Capped(Greatest(key - lookbehind, 0),
             Least(bytes, Greatest(key + window_max, vp[2] + lookahead)))
StageBWindow(key, vp, bytes) ==
  Capped(Greatest(key - lookbehind, 0), Least(bytes, vp[2] + lookahead))

(* derive: what one poll sees; every tier stops parsing for a cold         *)
(* document.                                                               *)
Derive ==
  [ver |-> version, text |-> text, lang |-> language, hot |-> hot,
   tier |-> TierForBytes(Bytes[text]), disabled |-> hot = "cold",
   vp |-> IF hot = "visible"
          THEN LET from == Least(view[1], Bytes[text])
               IN  <<from, Least(Least(Greatest(view[2], from), Bytes[text]), from + span_cap)>>
          ELSE None]
-----------------------------------------------------------------------------
(* The elements of a sequence that are in a set, in their order.           *)
Only(s, S) ==
  LET kept[i \in 0 .. Len(s)] ==
        IF i = 0 THEN <<>> ELSE IF s[i] \in S THEN Append(kept[i - 1], s[i]) ELSE kept[i - 1]
  IN  kept[Len(s)]

(* ViewportCache: its entries, most recently used first.                   *)
Covers(t, vp) == t # None /\ t.win[1] <= vp[1] /\ t.win[2] >= vp[2]
Exact(t, vp, ver) == Covers(t, vp) /\ t.ver = ver
KeyAt(cache, k) == Only(cache, {c \in Range(cache) : c.key = k})
HasKey(cache, k) == KeyAt(cache, k) # <<>>
Touch(cache, k) == KeyAt(cache, k) \o Only(cache, {c \in Range(cache) : c.key # k})

GetMutOrInsert(cache, k) ==
  IF HasKey(cache, k) THEN Touch(cache, k)
  ELSE <<[key |-> k, a |-> None, aFailed |-> None, b |-> None, bTried |-> None, bCooling |-> FALSE]>>
         \o SubSeq(cache, 1, Least(Len(cache), CacheCap - 1))

CoveringKey(cache, vp) ==
  LET best == Only(cache, {c \in Range(cache) : Covers(c.b, vp)})
              \o Only(cache, {c \in Range(cache) : Covers(c.a, vp)})
  IN  IF best = <<>> THEN None ELSE best[1].key

FocusKey(cache, vp) ==
  LET k == CoveringKey(cache, vp) IN IF k # None THEN k ELSE ViewportKey(vp)

CacheTrees(cache) == (UNION {{cache[i].a, cache[i].b} : i \in DOMAIN cache}) \ {None}

BestDocVersion(cache) ==
  IF CacheTrees(cache) = {} THEN None
  ELSE CHOOSE v \in {t.ver : t \in CacheTrees(cache)} : \A t \in CacheTrees(cache) : t.ver <= v

(* slot_has_stage_b_exact_viewport_coverage and its eager variant, which   *)
(* look at the best covering entry only.                                   *)
StageBExact(e, vp, ver) ==
  LET c == KeyAt(e.cache, CoveringKey(e.cache, vp)) IN c # <<>> /\ Exact(c[1].b, vp, ver)
EagerExact(e, vp, ver) ==
  LET c == KeyAt(e.cache, CoveringKey(e.cache, vp))
  IN  /\ c # <<>>
      /\ \/ Exact(c[1].b, vp, ver)
         \/ (Exact(c[1].a, vp, ver) /\ c[1].a.inj = "eager")
-----------------------------------------------------------------------------
(* DocEntry: SyntaxSlot and DocSched.  A lane's active task is named by    *)
(* the epoch it was spawned in: a lane has one task at a time, and none of *)
(* an earlier epoch.                                                       *)
Lanes == {"urgent", "enrich", "bg"}

NewEntry ==
  [full |-> None, memory |-> <<>>, cache |-> <<>>, dirty |-> FALSE, lang |-> None,
   pending |-> None, opts |-> None, booted |-> FALSE, tier |-> None,
   epoch |-> 0, active |-> [l \in Lanes |-> None], requested |-> [l \in Lanes |-> 0],
   cooling |-> {}, completed |-> <<>>, force |-> FALSE, source |-> "typing",
   focus |-> [key |-> None, ver |-> 0, polls |-> 0],
   debounce |-> FALSE, expired |-> FALSE]

AnyActive(e) == \E l \in Lanes : e.active[l] # None
HasAnyTree(e) == e.full # None \/ CacheTrees(e.cache) # {}

Invalidate(e) ==
  [e EXCEPT !.epoch = @ + 1, !.active = NewEntry.active, !.requested = NewEntry.requested,
            !.cooling = {}, !.completed = <<>>, !.force = FALSE, !.source = "typing",
            !.focus = NewEntry.focus]

DropTree(e) ==
  [e EXCEPT !.full = None, !.memory = <<>>, !.cache = <<>>, !.pending = None, !.booted = FALSE]

(* remember_full_tree_for_content, restore_full_tree_for_content           *)
Remember(e, c) ==
  LET others == Only(e.memory, {m \in Range(e.memory) : m.content # c})
  IN  IF e.memory # <<>> /\ e.memory[1].content = c THEN e
      ELSE [e EXCEPT !.memory = <<[content |-> c, of |-> e.full.of, lang |-> e.full.lang]>>
                                  \o SubSeq(others, 1, Least(Len(others), FULL_TREE_MEMORY_CAP - 1))]

Remembers(e, c) == \E i \in DOMAIN e.memory : e.memory[i].content = c

\* Mutant of Restore: the latest snapshot, whatever content it was taken of.
RestoreLatest(e, c, v) ==
  [e EXCEPT !.full = [ver |-> v, of |-> e.memory[1].of, lang |-> e.memory[1].lang]]

Restore(e, c, v) ==
  LET m == Only(e.memory, {x \in Range(e.memory) : x.content = c})[1]
  IN  [e EXCEPT !.full = [ver |-> v, of |-> m.of, lang |-> m.lang],
                !.memory = <<m>> \o Only(@, {x \in Range(@) : x.content # c})]
-----------------------------------------------------------------------------
(* Syntax::update_from_changeset and xeno_tree_house::Syntax::update.  The *)
(* edits are applied to the nodes of the tree before the parse, so only a  *)
(* tree of the text before the edits becomes the tree of the text after    *)
(* them, and a parse that times out leaves a torn tree, of neither.        *)
Update(of, p, c) ==
  IF of = Torn THEN Torn ELSE IF of = p.old /\ p.new = c THEN c ELSE Garbled

(* The pending window after one more edit of a document whose best tree    *)
(* has version anchor.                                                     *)
\* Mutant of ExtendPending: a window is opened on a tree that is already behind.
ExtendPendingLate(p, anchor, v, old, new) ==
  IF p # None THEN IF anchor # p.base THEN None ELSE [p EXCEPT !.new = new]
  ELSE [base |-> anchor, old |-> old, new |-> new]

ExtendPending(p, anchor, v, old, new) ==
  IF p # None THEN IF anchor # p.base THEN None ELSE [p EXCEPT !.new = new]
  ELSE IF anchor = v - 1 THEN [base |-> anchor, old |-> old, new |-> new]
  ELSE None

(* note_edit_incremental for the edit old -> new that made version v;      *)
(* synced: the 10 ms update succeeds.                                      *)
NoteEditIncremental(e, v, old, new, source, synced) ==
  LET noted == [e EXCEPT !.debounce = TRUE, !.source = source, !.dirty = TRUE,
                         !.force = @ \/ source = "history"]
      anchor == IF e.full # None THEN e.full.ver ELSE BestDocVersion(e.cache)
      kept == IF e.full # None /\ e.full.ver = v - 1 THEN Remember(noted, old) ELSE noted
      p == ExtendPending(e.pending, anchor, v, old, new)
      m == [kept EXCEPT !.pending = p]
      aligned == p # None /\ e.full # None /\ e.full.ver = p.base
  IN  CASE anchor = None -> [noted EXCEPT !.pending = None]
        [] anchor # None /\ source = "history" ->
             IF Remembers(m, new)
             THEN [Restore(m, new, v) EXCEPT !.pending = None, !.dirty = FALSE]
             ELSE m
        [] anchor # None /\ source = "typing" /\ e.full = None -> [m EXCEPT !.force = TRUE]
        [] anchor # None /\ source = "typing" /\ e.full # None ->
             IF ~aligned THEN m
             ELSE IF synced
             THEN [m EXCEPT !.pending = None, !.dirty = FALSE, !.full.ver = v,
                            !.full.of = Update(e.full.of, p, new)]
             ELSE [m EXCEPT !.full.of = Torn]
-----------------------------------------------------------------------------
(* sweep_retention for the document: a cold one loses its work, and its    *)
(* trees by the tier's policy (S keeps them, M and the viewports of L go   *)
(* after 60 s, the full tree of L at once).                                *)
Sweep(e) ==
  LET idle == IF AnyActive(e) \/ e.completed # <<>> THEN Invalidate(e) ELSE e
      dropFull == (e.full # None \/ e.dirty) /\ (e.tier = "L" \/ (e.tier = "M" /\ e.expired))
      dropView == CacheTrees(e.cache) # {} /\ e.tier # "S" /\ e.expired
      e1 == IF dropFull
            THEN [idle EXCEPT !.full = None, !.memory = <<>>, !.dirty = FALSE, !.pending = None]
            ELSE idle
  IN  IF e.tier = None \/ hot # "cold" THEN e
      ELSE IF dropView THEN [e1 EXCEPT !.cache = <<>>] ELSE e1

Normalize(e, ctx) ==
  LET switched == Invalidate(IF HasAnyTree(e) THEN DropTree(e) ELSE e)
      e1 == IF e.lang # ctx.lang THEN [switched EXCEPT !.lang = ctx.lang] ELSE e
      e2 == IF ctx.hot # "cold" THEN [e1 EXCEPT !.expired = FALSE] ELSE e1
      inj == Injections(ctx.tier)
      e3 == IF e2.opts \notin {None, inj}
            THEN DropTree([Invalidate(e2) EXCEPT !.dirty = TRUE]) ELSE e2
  IN  [e3 EXCEPT !.opts = inj, !.tier = ctx.tier]
-----------------------------------------------------------------------------
(* install_completions                                                     *)
IdentityOk(done, ctx) ==
  /\ ctx.lang # None /\ ~ctx.disabled /\ done.lang = ctx.lang
  /\ done.lane = "bg" => done.inj = Injections(ctx.tier)

ViewportAllowInstall(done, ctx, e) ==
  /\ done.ver >= e.requested[done.lane]
  /\ done.ver < ctx.ver /\ ctx.vp # None => e.full = None /\ CoveringKey(e.cache, ctx.vp) = None

(* should_install_completed_parse                                          *)
ShouldInstall(done, ctx, e) ==
  /\ e.full # None => done.ver >= e.full.ver
  /\ done.ver >= e.requested["bg"]
  /\ \/ done.ver = ctx.ver
     \/ e.full = None
     \/ (e.dirty /\ done.ver > e.full.ver)

KeepsPending(done, ctx, e) ==
  done.ver < ctx.ver /\ e.pending # None /\ e.pending.base = done.ver

\* Mutant of FullAllowInstall: whatever arrives is installed.
FullAllowInstallAll(done, ctx, e) == TRUE

FullAllowInstall(done, ctx, e) ==
  /\ ShouldInstall(done, ctx, e)
  /\ done.ver < ctx.ver => e.full = None \/ KeepsPending(done, ctx, e)

ApplyViewportInstall(e, done) ==
  LET t == [ver |-> done.ver, of |-> done.of, lang |-> done.lang, inj |-> done.inj, win |-> done.win]
      cache == GetMutOrInsert(e.cache, done.key)
  IN  IF done.lane = "urgent"
      THEN [e EXCEPT !.cache = [cache EXCEPT ![1].a = t, ![1].aFailed = None, ![1].bTried = None],
                     !.dirty = TRUE, !.force = TRUE]
      ELSE [e EXCEPT !.cache = [cache EXCEPT ![1].b = t, ![1].bCooling = FALSE]]

\* Mutant of ApplyFullInstall: an install cleans the document, a stale one too.
ApplyFullInstallClean(e, done, ctx) ==
  [e EXCEPT !.full = [ver |-> done.ver, of |-> done.of, lang |-> done.lang],
            !.pending = None, !.force = FALSE, !.dirty = FALSE]

ApplyFullInstall(e, done, ctx) ==
  [e EXCEPT !.full = [ver |-> done.ver, of |-> done.of, lang |-> done.lang],
            !.pending = IF KeepsPending(done, ctx, e) THEN @ ELSE None,
            !.force = FALSE, !.dirty = done.ver # ctx.ver,
            !.cooling = IF done.ver = ctx.ver THEN @ \ {"bg"} ELSE @]

(* apply_failure_cooldowns: whatever the result would have been used for.  *)
ApplyFailure(e, done) ==
  LET cache == GetMutOrInsert(e.cache, done.key)
  IN  CASE done.lane = "enrich" ->
             [e EXCEPT !.cache = [cache EXCEPT ![1].bCooling = TRUE, ![1].bTried = None]]
        [] done.lane = "urgent" ->
             [e EXCEPT !.cache = [cache EXCEPT ![1].aFailed = done.ver], !.cooling = @ \cup {"urgent"}]
        [] done.lane = "bg" -> [e EXCEPT !.cooling = @ \cup {"bg"}]

InstallOne(e, done, ctx) ==
  IF done.res = "failed" THEN ApplyFailure(e, done)
  ELSE IF ~IdentityOk(done, ctx) THEN e
  ELSE IF done.lane = "bg"
  THEN IF FullAllowInstall(done, ctx, e) THEN ApplyFullInstall(e, done, ctx) ELSE e
  ELSE IF ViewportAllowInstall(done, ctx, e) THEN ApplyViewportInstall(e, done) ELSE e

InstallCompletions(e, ctx) ==
  LET after[n \in 0 .. Len(e.completed)] ==
        IF n = 0 THEN [e EXCEPT !.completed = <<>>]
        ELSE InstallOne(after[n - 1], e.completed[n], ctx)
  IN  after[Len(e.completed)]
-----------------------------------------------------------------------------
(* gate: either the poll is over, or it goes on with the entry it returns. *)
NoLanguage(e) ==
  [(IF HasAnyTree(e) THEN DropTree(e) ELSE e) EXCEPT !.lang = None, !.dirty = FALSE, !.cooling = {}]

NoteViewport(e, ctx) ==
  LET key == FocusKey(e.cache, ctx.vp)
      same == e.focus.key = key /\ e.focus.ver = ctx.ver
  IN  IF ctx.vp = None THEN e
      ELSE [e EXCEPT !.cache = Touch(@, key),
                     !.focus = [key |-> key, ver |-> ctx.ver,
                                polls |-> IF same THEN Least(@.polls + 1, min_stable_polls) ELSE 1]]

WantEnrich(e, ctx) == ctx.tier = "L" /\ ctx.vp # None /\ ~StageBExact(e, ctx.vp, ctx.ver)
Uncovered(e, ctx) == ctx.vp # None /\ e.full = None /\ CoveringKey(e.cache, ctx.vp) = None

ReadyFast(e, ctx) ==
  HasAnyTree(e) /\ ~e.dirty /\ ~WantEnrich(e, ctx) /\ ~(ctx.tier = "L" /\ Uncovered(e, ctx))
Debounced(e) == HasAnyTree(e) /\ ~e.force /\ e.debounce

(* sync_bootstrap: the first parse of a visible small or medium document,  *)
(* on the drawing thread.                                                  *)
Boots(e, ctx) == ~HasAnyTree(e) /\ ctx.hot = "visible" /\ ~e.booted /\ ctx.tier # "L"

Booted(e, ctx) ==
  [e EXCEPT !.booted = TRUE, !.full = [ver |-> ctx.ver, of |-> ctx.text, lang |-> ctx.lang],
            !.dirty = FALSE, !.pending = None, !.force = FALSE,
            !.cooling = @ \ {"bg"}]
-----------------------------------------------------------------------------
(* compute_plan: what each lane would spawn.                               *)
Task(e, ctx, lane, inj, key, win, of) ==
  [lane |-> lane, epoch |-> e.epoch, ver |-> ctx.ver, lang |-> ctx.lang, inj |-> inj,
   key |-> key, win |-> win, of |-> of, res |-> "running"]

PlansStageA(e, ctx) ==
  LET failed == KeyAt(e.cache, ViewportKey(ctx.vp))
      win == StageAWindow(ctx.vp, Bytes[ctx.text])
  IN  /\ ctx.vp # None /\ ctx.tier = "L" /\ e.active["urgent"] = None /\ "urgent" \notin e.cooling
      /\ \/ Uncovered(e, ctx)
         \/ /\ e.source = "history" /\ ~EagerExact(e, ctx.vp, ctx.ver)
            /\ failed # <<>> => failed[1].aFailed # ctx.ver
      /\ win[1] < win[2]

StageA(e, ctx) ==
  Task(e, ctx, "urgent", IF e.source = "history" THEN "eager" ELSE "disabled",
       ViewportKey(ctx.vp), StageAWindow(ctx.vp, Bytes[ctx.text]), ctx.text)

StageBWindowOf(e, ctx) ==
  LET c == KeyAt(e.cache, FocusKey(e.cache, ctx.vp))
  IN  IF c # <<>> /\ c[1].a # None THEN c[1].a.win
      ELSE StageBWindow(FocusKey(e.cache, ctx.vp), ctx.vp, Bytes[ctx.text])

(* cheap: the metrics predict a parse within the tier's budget.            *)
PlansStageB(e, ctx, cheap) ==
  LET c == KeyAt(e.cache, FocusKey(e.cache, ctx.vp))
  IN  /\ ctx.vp # None /\ ctx.tier = "L" /\ e.active["enrich"] = None /\ e.active["urgent"] = None
      /\ e.focus.polls >= min_stable_polls
      /\ ~StageBExact(e, ctx.vp, ctx.ver)
      /\ c # <<>> => c[1].bTried # ctx.ver /\ ~c[1].bCooling
      /\ cheap
      /\ StageBWindowOf(e, ctx)[1] < StageBWindowOf(e, ctx)[2]

StageB(e, ctx) ==
  Task(e, ctx, "enrich", "eager", FocusKey(e.cache, ctx.vp), StageBWindowOf(e, ctx), ctx.text)

PlansBg(e) == (e.dirty \/ e.full = None) /\ e.active["bg"] = None /\ "bg" \notin e.cooling

(* Incremental when the pending window starts at the resident tree; an     *)
(* update that fails falls back to a parse of the whole text.              *)
Background(e, ctx) ==
  Task(e, ctx, "bg", Injections(ctx.tier), None, None,
       IF e.pending # None /\ e.full # None /\ e.full.ver = e.pending.base
       THEN Update(e.full.of, e.pending, ctx.text) ELSE ctx.text)
-----------------------------------------------------------------------------
(* TaskCollector::spawn: an urgent task takes any permit, the others leave *)
(* the reserve.  A permit is held until the closure returns.               *)
Running(ts) == Cardinality({t \in ts : t.res = "running"})


CanSpawn(ts, lane) ==
  LET available == max_concurrency - Running(ts)
  IN  available > (IF lane = "urgent" THEN 0 ELSE viewport_reserve)

Spawned(s, ctx, t) ==
  LET e == s.entry
      started == [e EXCEPT !.active[t.lane] = e.epoch, !.requested[t.lane] = ctx.ver]
  IN  [tasks |-> s.tasks \cup {t},
       entry |-> CASE t.lane = "urgent" -> started
                   [] t.lane = "enrich" ->
                        [started EXCEPT !.cache =
                           [GetMutOrInsert(@, t.key) EXCEPT ![1].bTried = ctx.ver, ![1].bCooling = FALSE]]
                   [] t.lane = "bg" -> [started EXCEPT !.force = FALSE]]

SpawnLane(s, ctx, t) == IF CanSpawn(s.tasks, t.lane) THEN Spawned(s, ctx, t) ELSE s

SpawnPlan(e, ctx, cheap) ==
  LET a == PlansStageA(e, ctx)
      s0 == [entry |-> e, tasks |-> tasks]
      s1 == IF a THEN SpawnLane(s0, ctx, StageA(e, ctx)) ELSE s0
      s2 == IF ~a /\ PlansStageB(e, ctx, cheap) THEN SpawnLane(s1, ctx, StageB(e, ctx)) ELSE s1
  IN  IF PlansBg(e) THEN SpawnLane(s2, ctx, Background(e, ctx)) ELSE s2

(* ensure_syntax: one poll of the document; quick: the bootstrap parse of  *)
(* a small or medium text returns in time, or the metrics promise that the *)
(* enrichment parse of a large one will.                                   *)
EnsureSyntax(e0, quick) ==
  LET ctx == Derive
      e1 == InstallCompletions(Normalize(e0, ctx), ctx)
      e2 == NoteViewport(e1, ctx)
      stop(e) == [entry |-> e, tasks |-> tasks]
  IN  CASE ctx.lang = None -> stop(NoLanguage(e1))
        [] ctx.lang # None /\ ctx.disabled -> stop(IF AnyActive(e1) THEN Invalidate(e1) ELSE e1)
        [] ctx.lang # None /\ ~ctx.disabled ->
             IF ReadyFast(e2, ctx) THEN stop([e2 EXCEPT !.force = FALSE])
             ELSE IF Debounced(e2) THEN stop(e2)
             ELSE IF Boots(e2, ctx) /\ quick /\ ~AnyActive(e2) THEN stop(Booted(e2, ctx))
             ELSE IF Boots(e2, ctx) THEN SpawnPlan([e2 EXCEPT !.booted = TRUE], ctx, quick)
             ELSE SpawnPlan(e2, ctx, quick)
-----------------------------------------------------------------------------
(* The document and its views.                                             *)
IsOpen == hot # "closed"

Init ==
  /\ hist = <<InitText>> /\ language \in Langs
  /\ hot = "visible" /\ view = InitView
  /\ entry = NewEntry /\ tasks = {} /\ events = 0

Event == events < MaxEvents /\ events' = events + 1

Happens == IsOpen /\ Event
NewText(c) == Happens /\ hist' = Append(hist, c)

Typing(c, synced) ==
  /\ NewText(c) /\ <<text, c>> \in Edits
  /\ entry' = NoteEditIncremental(entry, version + 1, text, c, "typing", synced)
  /\ UNCHANGED <<language, hot, view, tasks>>

(* Undo and redo return to a text the document had.                        *)
History(c) ==
  /\ NewText(c) /\ c # text /\ c \in Range(hist)
  /\ entry' = NoteEditIncremental(entry, version + 1, text, c, "history", FALSE)
  /\ UNCHANGED <<language, hot, view, tasks>>

ResetSyntax(e) ==
  Invalidate([(IF HasAnyTree(e) THEN DropTree(e) ELSE e) EXCEPT !.dirty = TRUE, !.pending = None])

(* A loaded file, an overlay or a popup replaces the content.              *)
ResetContent(c) ==
  /\ NewText(c) /\ <<text, c>> \in Edits /\ entry' = ResetSyntax(entry)
  /\ UNCHANGED <<language, hot, view, tasks>>

ReparseSyntax ==
  /\ Happens /\ entry' = ResetSyntax(entry)
  /\ UNCHANGED <<hist, language, hot, view, tasks>>

(* Document::set_path                                                      *)
SetLanguage(l) ==
  /\ Happens /\ l # language /\ language' = l
  /\ UNCHANGED <<hist, hot, view, entry, tasks>>

Show(vp) ==
  /\ Happens /\ <<hot, view>> # <<"visible", vp>> /\ hot' = "visible" /\ view' = vp
  /\ UNCHANGED <<hist, language, entry, tasks>>

(* A document nobody looks at is warm as long as it is among the recently  *)
(* visible ones.                                                           *)
Hide ==
  /\ Happens /\ hot = "visible" /\ hot' = "warm"
  /\ UNCHANGED <<hist, language, view, entry, tasks>>

Chill ==
  /\ hot = "warm" /\ hot' = "cold"
  /\ UNCHANGED <<hist, language, view, entry, tasks, events>>

OnDocumentClose ==
  /\ Happens /\ hot' = "closed" /\ entry' = NewEntry
  /\ UNCHANGED <<hist, language, view, tasks>>
-----------------------------------------------------------------------------
(* The parse tasks.                                                        *)
Returns(t, res) ==
  /\ t.res = "running" /\ tasks' = (tasks \ {t}) \cup {[t EXCEPT !.res = res]}
  /\ UNCHANGED <<hist, language, hot, view, entry>>

TaskFinishes(t) == Returns(t, "ok") /\ UNCHANGED events
TaskFails(t) == Event /\ Returns(t, "failed")
TaskPanics(t) == Event /\ Returns(t, "panicked")

(* drain_finished_inflight, called by every tick: it may find any of the   *)
(* finished tasks.  A task that panicked is dropped and says nothing about *)
(* its lane.                                                               *)
DrainFinished(t) ==
  LET freed == [entry EXCEPT !.active[t.lane] = IF @ = t.epoch THEN None ELSE @]
      delivered == IsOpen /\ t.res # "panicked"
      current == delivered /\ t.epoch = entry.epoch
  IN  /\ t.res # "running" /\ tasks' = tasks \ {t}
      /\ entry' = IF current THEN [freed EXCEPT !.completed = Append(@, t)]
                  ELSE IF delivered THEN freed ELSE entry
      /\ UNCHANGED <<hist, language, hot, view, events>>
-----------------------------------------------------------------------------
(* ensure_syntax_for_buffers, part of every frame that is drawn: one that  *)
(* an install or a drop asked for, or one for a key press, a toast or a    *)
(* language server's message.                                              *)
InWorkset(e) ==
  /\ AnyActive(e) \/ e.dirty \/ e.completed # <<>> \/ hot = "visible"
  /\ ~(hot = "cold" /\ e.tier # None)

Polled(quick) ==
  LET swept == Sweep(entry)
  IN  IF InWorkset(swept) THEN EnsureSyntax(swept, quick) ELSE [entry |-> swept, tasks |-> tasks]

Frame(quick) ==
  LET polled == Polled(quick)
  IN  /\ IsOpen /\ entry' = polled.entry /\ tasks' = polled.tasks
      /\ UNCHANGED <<hist, language, hot, view, events>>
-----------------------------------------------------------------------------
(* Time: what the pipeline compares with the clock.                        *)
Elapses(e) ==
  IsOpen /\ entry' = e /\ UNCHANGED <<hist, language, hot, view, tasks, events>>

DebounceEnds == entry.debounce /\ Elapses([entry EXCEPT !.debounce = FALSE])
LaneCools(l) == l \in entry.cooling /\ Elapses([entry EXCEPT !.cooling = @ \ {l}])
StageBCools(i) == entry.cache[i].bCooling /\ Elapses([entry EXCEPT !.cache[i].bCooling = FALSE])
RetentionEnds ==
  hot = "cold" /\ entry.tier # None /\ ~entry.expired /\ Elapses([entry EXCEPT !.expired = TRUE])

Parses == \E t \in tasks : TaskFinishes(t)
Drains == \E t \in tasks : DrainFinished(t)
Draws == \E quick \in BOOLEAN : Frame(quick)
TimePasses ==
  DebounceEnds \/ (\E l \in Lanes : LaneCools(l)) \/ (\E i \in DOMAIN entry.cache : StageBCools(i))

Next ==
  \/ \E c \in Texts : \E synced \in BOOLEAN : Typing(c, synced)
  \/ \E c \in Texts : History(c) \/ ResetContent(c)
  \/ ReparseSyntax
  \/ \E l \in Langs \cup {None} : SetLanguage(l)
  \/ \E vp \in Viewports : Show(vp)
  \/ Hide \/ Chill \/ OnDocumentClose
  \/ \E t \in tasks : TaskFails(t) \/ TaskPanics(t)
  \/ Parses \/ Drains \/ Draws \/ TimePasses \/ RetentionEnds

Spec == Init /\ [][Next]_vars

(* Every parse has a timeout, every tick drains, frames are drawn as long  *)
(* as the user or a language server is active, and time passes.            *)
DrawsFairly ==
  \/ []<>(~IsOpen \/ \A quick \in BOOLEAN : Polled(quick) = [entry |-> entry, tasks |-> tasks])
  \/ []<><<Draws>>_vars

FairSpec ==
  Spec /\ WF_vars(Parses) /\ WF_vars(Drains) /\ DrawsFairly /\ WF_vars(TimePasses)
-----------------------------------------------------------------------------
(* Every resident tree, and every parse on its way to becoming one, is the *)
(* parse of the text its document version names, in the language it is     *)
(* tagged with, unless an update that timed out tore it; the tree that is  *)
(* remembered for a content is a tree of that content.                     *)
IsParseOf(t) == t.of \in {hist[t.ver + 1], Torn}

TreesAreOfTheirVersion ==
  /\ entry.full # None => IsParseOf(entry.full) /\ entry.full.lang = entry.lang
  /\ \A t \in CacheTrees(entry.cache) : t.of = hist[t.ver + 1] /\ t.lang = entry.lang
  /\ \A t \in tasks \cup Range(entry.completed) : IsParseOf(t)
  /\ \A i \in DOMAIN entry.memory : entry.memory[i].of \in {entry.memory[i].content, Torn}

(* The pending edits that an incremental update or a projected highlight   *)
(* starts from lead from the text of their base version to the text the    *)
(* document has now, through any order of edits, undo, resets and installs *)
(* of late parses.                                                         *)
PendingIsExact ==
  entry.pending # None => entry.pending.old = hist[entry.pending.base + 1] /\ entry.pending.new = text

(* When the gate answers Ready and spawns nothing, the full tree, if there *)
(* is one, is of the current version, and what is in view is covered by it *)
(* or by a viewport tree of the current version.  The stale viewport trees *)
(* of a large document that is out of view do not count: the retention     *)
(* sweep clears the dirty flag and keeps them.                             *)
ReadyIsCurrent ==
  LET ctx == Derive
      e == NoteViewport(InstallCompletions(Normalize(entry, ctx), ctx), ctx)
  IN  IsOpen /\ ctx.lang # None /\ ~ctx.disabled /\ ReadyFast(e, ctx)
        => /\ e.full # None => e.full.ver = version
           /\ hot = "visible" =>
                e.full # None \/ \E t \in CacheTrees(e.cache) : Exact(t, ctx.vp, version)

(* A full tree is never replaced by one of an older version, however late  *)
(* the parse of the older version comes in.                                *)
TreeNeverRegresses ==
  [][entry.full # None /\ entry'.full # None => entry'.full.ver >= entry.full.ver]_vars

(* A document that stays in view gets a full tree of its current version,  *)
(* or the gate finds it ready, unless a panicked parse holds one of its    *)
(* lanes.                                                                  *)
Wedged(l) ==
  /\ entry.active[l] # None
  /\ \A t \in tasks : t.lane = l /\ t.epoch = entry.epoch => t.res = "panicked"

=============================================================================
