------------------------ MODULE PluginUpdatesProofs ------------------------
(***************************************************************************)
(* A plugin has one update in flight, for every number of plugins, buffers,*)
(* edits and undos and whatever exits, times out or is closed; and the     *)
(* revisions it has to answer for are counted as long as its chains keep   *)
(* to the buffer they began with.                                          *)
(*                                                                         *)
(* The flag and the chain change together, so the first is inductive with  *)
(* the types; of the undo state these need that cur_undo is a position in  *)
(* live_undos (UndoInBounds), or calculate_undo_group would slice out of   *)
(* range.  The second needs that the mutex is free only when no update is  *)
(* being offered (FreeIsIdle): the revision the core holds while it offers *)
(* an update is what covers the update before a chain or a waiting slot    *)
(* does.                                                                   *)
(***************************************************************************)
EXTENDS PluginUpdates, SequenceTheorems, FiniteSetTheorems, TLAPS

UndoInBounds == \A b \in Buffers : curUndo[b] <= Len(liveUndos[b])

EditorTypes ==
    /\ head \in [Buffers -> Nat] /\ lastRev \in [Buffers -> Nat]
    /\ revs \in [Buffers -> SUBSET [id : Nat, group : Int]]
    /\ liveUndos \in [Buffers -> Seq(Nat)]
    /\ curUndo \in [Buffers -> Nat] /\ undoGroup \in [Buffers -> Nat]
    /\ undos \in [Buffers -> SUBSET Nat] /\ gcUndos \in [Buffers -> SUBSET Nat]
    /\ revsInFlight \in [Buffers -> Int]
    /\ UndoInBounds

CoreTypes ==
    /\ core \in [pc : {"free", "update", "store", "wedged", "poisoned"},
                 buf : Buffers \cup {"none"}, todo : SUBSET Plugins,
                 plugin : Plugins \cup {"none"}]
    /\ core.pc \in {"update", "store", "wedged"} => core.buf \in Buffers
    /\ core.pc = "store" => core.plugin \in Plugins

Chains == [pc : ChainPcs, upd : Updates \cup {NoUpdate},
           view : Buffers \cup {"none"}, locked : BOOLEAN]

ChainTypes ==
    /\ inFlight \in [Plugins -> BOOLEAN]
    /\ coalesced \in [Plugins -> Updates \cup {NoUpdate}]
    /\ chain \in [Plugins -> Chains]
    /\ \A p \in Plugins : chain[p].pc # "none" =>
          chain[p].upd \in Updates /\ chain[p].view \in Buffers

ProcessTypes ==
    /\ running \subseteq Plugins
    /\ timed \in [Plugins -> BOOLEAN] /\ up \in [Plugins -> BOOLEAN]
    /\ pipe \in [Plugins -> Seq(Updates)] /\ answers \in [Plugins -> Seq(Updates)]
    /\ has \in [Plugins -> [Buffers -> Nat]]

FlagIsChain == \A p \in Plugins : inFlight[p] <=> chain[p].pc # "none"

FreeIsIdle == core.pc \in {"free", "poisoned"} => core.buf = "none"

\* The inductive invariant of the first theorem.
ChainInv ==
    /\ EditorTypes /\ CoreTypes /\ ChainTypes /\ ProcessTypes /\ FlagIsChain /\ FreeIsIdle

ViewTypes == views \subseteq Buffers

LEMMA TypesInParts ==
    TypeOK /\ UndoInBounds
        <=> ViewTypes /\ EditorTypes /\ CoreTypes /\ ChainTypes /\ ProcessTypes
BY DEF TypeOK, ViewTypes, EditorTypes, CoreTypes, ChainTypes, ProcessTypes, Chains
-----------------------------------------------------------------------------
\* The invariant holds in the initial states.
LEMMA ChainInit == Init => ChainInv
<1> SUFFICES ASSUME Init PROVE ChainInv
    OBVIOUS
<1>1. EditorTypes
  <2>1. <<0>> \in Seq(Nat) /\ Len(<<0>>) = 1
      OBVIOUS
  <2>2. {[id |-> 0, group |-> NoGroup], [id |-> 1, group |-> 0]}
           \in SUBSET [id : Nat, group : Int]
      BY DEF NoGroup
  <2> QED
      BY <2>1, <2>2 DEF Init, EditorTypes, UndoInBounds
<1>2. CoreTypes /\ FreeIsIdle
    BY DEF Init, CoreTypes, FreeIsIdle, Free
<1>3. ChainTypes /\ FlagIsChain
    BY DEF Init, ChainTypes, FlagIsChain, Idle, Chains, ChainPcs
<1>4. ProcessTypes
    BY EmptySeq DEF Init, ProcessTypes
<1> QED
    BY <1>1, <1>2, <1>3, <1>4 DEF ChainInv

\* The live undo groups after a new one, and after the oldest has gone.
LEMMA SliceOfSeq ==
    ASSUME NEW l \in Seq(Nat), NEW c \in Nat, c <= Len(l)
    PROVE  SubSeq(l, 1, c) \in Seq(Nat) /\ Len(SubSeq(l, 1, c)) = c
OBVIOUS

LEMMA RestOfSeq ==
    ASSUME NEW l \in Seq(Nat), NEW c \in Nat
    PROVE  {l[i] : i \in c + 1 .. Len(l)} \in SUBSET Nat
OBVIOUS

LEMMA AppendToSeq ==
    ASSUME NEW l \in Seq(Nat), NEW g \in Nat
    PROVE  /\ Append(l, g) \in Seq(Nat) /\ Len(Append(l, g)) = Len(l) + 1
           /\ Append(l, g) # <<>>
<1>1. Append(l, g) \in Seq(Nat) /\ Len(Append(l, g)) = Len(l) + 1
    OBVIOUS
<1>2. Len(<<>>) = 0 /\ Len(l) \in Nat
    OBVIOUS
<1>3. Append(l, g) # <<>>
    BY <1>1, <1>2
<1> QED
    BY <1>1, <1>3

LEMMA WithoutFirst ==
    ASSUME NEW l \in Seq(Nat), l # <<>>
    PROVE  Tail(l) \in Seq(Nat) /\ Len(Tail(l)) = Len(l) - 1 /\ Head(l) \in Nat
BY HeadTailProperties

\* calculate_undo_group keeps cur_undo inside live_undos.
LEMMA UndoGroupTypes ==
    ASSUME EditorTypes, NEW b \in Buffers, NEW joins \in BOOLEAN,
           CalculateUndoGroup(b, joins)
    PROVE  /\ liveUndos' \in [Buffers -> Seq(Nat)]
           /\ curUndo' \in [Buffers -> Nat] /\ undoGroup' \in [Buffers -> Nat]
           /\ gcUndos' \in [Buffers -> SUBSET Nat]
           /\ UndoInBounds'
<1>1. /\ liveUndos[b] \in Seq(Nat) /\ curUndo[b] \in Nat
      /\ curUndo[b] <= Len(liveUndos[b]) /\ undoGroup[b] \in Nat
    BY DEF EditorTypes, UndoInBounds
<1>2. CASE joins /\ liveUndos[b] # <<>>
    BY <1>2 DEF CalculateUndoGroup, EditorTypes, UndoInBounds
<1>3. CASE ~(joins /\ liveUndos[b] # <<>>)
  <2> DEFINE kept == Append(SubSeq(liveUndos[b], 1, curUndo[b]), undoGroup[b])
             redo == {liveUndos[b][i] : i \in curUndo[b] + 1 .. Len(liveUndos[b])}
             full == Len(kept) > MaxUndos
             next == IF full THEN Tail(kept) ELSE kept
             more == redo \cup (IF full THEN {Head(kept)} ELSE {})
             cur  == IF full THEN curUndo[b] ELSE curUndo[b] + 1
  <2>1. /\ kept \in Seq(Nat) /\ Len(kept) = curUndo[b] + 1
        /\ Tail(kept) \in Seq(Nat) /\ Len(Tail(kept)) = curUndo[b] /\ Head(kept) \in Nat
        /\ redo \in SUBSET Nat
    <3>1. SubSeq(liveUndos[b], 1, curUndo[b]) \in Seq(Nat)
          /\ Len(SubSeq(liveUndos[b], 1, curUndo[b])) = curUndo[b]
        BY <1>1, SliceOfSeq
    <3>2. redo \in SUBSET Nat
        BY <1>1, RestOfSeq
    <3>3. kept \in Seq(Nat) /\ Len(kept) = curUndo[b] + 1 /\ kept # <<>>
        BY <1>1, <3>1, AppendToSeq
    <3>4. Tail(kept) \in Seq(Nat) /\ Len(Tail(kept)) = Len(kept) - 1 /\ Head(kept) \in Nat
        BY <3>3, WithoutFirst
    <3> QED
        BY <1>1, <3>2, <3>3, <3>4
  <2>2. /\ liveUndos' = [liveUndos EXCEPT ![b] = next]
        /\ curUndo' = [curUndo EXCEPT ![b] = cur]
        /\ gcUndos' = [gcUndos EXCEPT ![b] = @ \cup more]
        /\ undoGroup' = [undoGroup EXCEPT ![b] = @ + 1]
      BY <1>3, Zenon DEF CalculateUndoGroup
  <2> HIDE DEF kept, redo
  <2>3. next \in Seq(Nat) /\ Len(next) = cur /\ cur \in Nat /\ more \in SUBSET Nat
    <3> HIDE DEF full
    <3>1. CASE full
        BY <1>1, <2>1, <3>1
    <3>2. CASE ~full
        BY <1>1, <2>1, <3>2
    <3> QED
        BY <3>1, <3>2
  <2> HIDE DEF next, more, cur
  <2>4. liveUndos' \in [Buffers -> Seq(Nat)]
      BY <2>2, <2>3 DEF EditorTypes
  <2>5. curUndo' \in [Buffers -> Nat] /\ undoGroup' \in [Buffers -> Nat]
      BY <2>2, <2>3 DEF EditorTypes
  <2>7. gcUndos' \in [Buffers -> SUBSET Nat]
    <3>1. gcUndos \in [Buffers -> SUBSET Nat]
        BY DEF EditorTypes
    <3> QED
        BY <2>2, <2>3, <3>1
  <2>6. UndoInBounds'
    <3>1. ASSUME NEW d \in Buffers PROVE curUndo'[d] <= Len(liveUndos'[d])
      <4>1. CASE d = b
        <5>1. curUndo'[d] = cur /\ liveUndos'[d] = next
            BY <2>2, <4>1 DEF EditorTypes
        <5> QED
            BY <2>3, <5>1
      <4>2. CASE d # b
        <5>1. curUndo'[d] = curUndo[d] /\ liveUndos'[d] = liveUndos[d]
            BY <2>2, <4>2 DEF EditorTypes
        <5> QED
            BY <5>1 DEF EditorTypes, UndoInBounds
      <4> QED
          BY <4>1, <4>2
    <3> QED
        BY <3>1 DEF UndoInBounds
  <2> QED
      BY <2>4, <2>5, <2>6, <2>7
<1> QED
    BY <1>2, <1>3

\* A new edit of the engine, in a group of its own or of an earlier one.
LEMMA NewEditTypes ==
    ASSUME EditorTypes, NEW b \in Buffers, NEW g \in Nat, NewEdit(b, g)
    PROVE  /\ head' \in [Buffers -> Nat] /\ undos' \in [Buffers -> SUBSET Nat]
           /\ revs' \in [Buffers -> SUBSET [id : Nat, group : Int]]
<1>1. head' \in [Buffers -> Nat] /\ undos' \in [Buffers -> SUBSET Nat]
    BY DEF NewEdit, EditorTypes
<1>2. revs' = [revs EXCEPT ![b] = @ \cup {[id |-> head[b] + 1, group |-> g]}]
    BY DEF NewEdit
<1>3. revs' \in [Buffers -> SUBSET [id : Nat, group : Int]]
    BY <1>2 DEF EditorTypes
<1> QED
    BY <1>1, <1>3

\* An edit by the core, as it leaves the editor before the commit.
LEMMA AddDeltaTypes ==
    ASSUME EditorTypes, NEW b \in Buffers, NEW joins \in BOOLEAN, AddDelta(b, joins),
           lastRev' \in [Buffers -> Nat], revsInFlight' \in [Buffers -> Int]
    PROVE  EditorTypes'
<1>1. /\ liveUndos' \in [Buffers -> Seq(Nat)]
      /\ curUndo' \in [Buffers -> Nat] /\ undoGroup' \in [Buffers -> Nat]
      /\ gcUndos' \in [Buffers -> SUBSET Nat] /\ UndoInBounds'
    BY UndoGroupTypes DEF AddDelta
<1> DEFINE g == IF joins /\ liveUndos[b] # <<>>
                THEN liveUndos[b][Len(liveUndos[b])] ELSE undoGroup[b]
<1>2. g \in Nat
  <2>1. liveUndos[b] \in Seq(Nat) /\ undoGroup[b] \in Nat
      BY DEF EditorTypes
  <2>2. liveUndos[b] # <<>> => Len(liveUndos[b]) \in 1 .. Len(liveUndos[b])
      BY <2>1, EmptySeq
  <2> QED
      BY <2>1, <2>2, ElementOfSeq
<1>3. NewEdit(b, g)
    BY DEF AddDelta
<1> HIDE DEF g
<1>4. /\ head' \in [Buffers -> Nat] /\ undos' \in [Buffers -> SUBSET Nat]
      /\ revs' \in [Buffers -> SUBSET [id : Nat, group : Int]]
    BY <1>2, <1>3, NewEditTypes
<1> QED
    BY <1>1, <1>4 DEF EditorTypes

\* An undo or a redo, as it leaves the editor before the commit.
LEMMA ToggleTypes ==
    ASSUME EditorTypes, NEW b \in Buffers, NEW cur \in Nat, cur <= Len(liveUndos[b]),
           NEW undone \in SUBSET Nat, ToggleUndo(b, cur, undone),
           lastRev' \in [Buffers -> Nat], revsInFlight' \in [Buffers -> Int]
    PROVE  EditorTypes'
<1>1. /\ curUndo' = [curUndo EXCEPT ![b] = cur] /\ undos' = [undos EXCEPT ![b] = undone]
      /\ head' = [head EXCEPT ![b] = @ + 1]
      /\ revs' = [revs EXCEPT ![b] = @ \cup {[id |-> head[b] + 1, group |-> NoGroup]}]
      /\ UNCHANGED <<liveUndos, gcUndos, undoGroup>>
    BY DEF ToggleUndo
<1>2. curUndo' \in [Buffers -> Nat] /\ undos' \in [Buffers -> SUBSET Nat]
      /\ head' \in [Buffers -> Nat]
    BY <1>1 DEF EditorTypes
<1>3. revs' \in [Buffers -> SUBSET [id : Nat, group : Int]]
    BY <1>1 DEF EditorTypes, NoGroup
<1>4. UndoInBounds'
    BY <1>1 DEF EditorTypes, UndoInBounds
<1> QED
    BY <1>1, <1>2, <1>3, <1>4 DEF EditorTypes

\* after_edit: the commit takes the mutex for the updates, or finds nothing to do
\* or poisons it.
LEMMA AfterEditTypes ==
    ASSUME ChainInv, NEW b \in Buffers, head' \in [Buffers -> Nat], core.pc = "free",
           AfterEdit(b)
    PROVE  /\ lastRev' \in [Buffers -> Nat] /\ revsInFlight' \in [Buffers -> Int]
           /\ CoreTypes' /\ FreeIsIdle'
<1>1. CASE UNCHANGED <<lastRev, revsInFlight, core>>
    BY <1>1 DEF ChainInv, EditorTypes, CoreTypes, FreeIsIdle
<1>2. CASE core' = [Free EXCEPT !.pc = "poisoned"] /\ UNCHANGED <<lastRev, revsInFlight>>
    BY <1>2 DEF ChainInv, EditorTypes, CoreTypes, FreeIsIdle, Free
<1>3. CASE /\ lastRev' = [lastRev EXCEPT ![b] = head'[b]]
           /\ revsInFlight' = [revsInFlight EXCEPT ![b] = @ + 1]
           /\ core' = [pc |-> "update", buf |-> b, todo |-> running, plugin |-> "none"]
    BY <1>3 DEF ChainInv, EditorTypes, CoreTypes, FreeIsIdle, ProcessTypes
<1> QED
    BY <1>1, <1>2, <1>3 DEF AfterEdit

\* Commands of the user: edits, and what ends in a commit without one.
LEMMA EditPreserves ==
    ASSUME ChainInv, NEW b \in Buffers, EditorStep(b), ~CloseView(b)
    PROVE  ChainInv' /\ UNCHANGED pluginVars
<1>1. UNCHANGED pluginVars /\ core.pc = "free" /\ AfterEdit(b)
    BY DEF EditorStep, Edit, Undo, Redo, Touch
<1>2. ChainTypes' /\ ProcessTypes' /\ FlagIsChain'
    BY <1>1 DEF pluginVars, ChainInv, ChainTypes, ProcessTypes, FlagIsChain
<1>3. head' \in [Buffers -> Nat]
  <2>1. head \in [Buffers -> Nat]
      BY DEF ChainInv, EditorTypes
  <2>2. head' = head \/ head' = [head EXCEPT ![b] = @ + 1]
      BY DEF EditorStep, Edit, Undo, Redo, Touch, AddDelta, NewEdit, ToggleUndo
  <2> QED
      BY <2>1, <2>2
<1>4. /\ lastRev' \in [Buffers -> Nat] /\ revsInFlight' \in [Buffers -> Int]
      /\ CoreTypes' /\ FreeIsIdle'
    BY <1>1, <1>3, AfterEditTypes
<1>5. /\ liveUndos[b] \in Seq(Nat) /\ curUndo[b] \in Nat /\ curUndo[b] <= Len(liveUndos[b])
      /\ Len(liveUndos[b]) \in Nat /\ undos[b] \in SUBSET Nat
    BY LenProperties DEF ChainInv, EditorTypes, UndoInBounds
<1>6. ASSUME NEW joins \in BOOLEAN, Edit(b, joins) PROVE EditorTypes'
    BY <1>4, <1>6, AddDeltaTypes DEF ChainInv, Edit
<1>7. ASSUME Undo(b) PROVE EditorTypes'
  <2>1. curUndo[b] > 1 /\ ToggleUndo(b, curUndo[b] - 1, undos[b] \cup {liveUndos[b][curUndo[b]]})
      BY <1>7 DEF Undo
  <2>2. liveUndos[b][curUndo[b]] \in Nat
      BY <1>5, <2>1, ElementOfSeq
  <2>3. curUndo[b] - 1 \in Nat /\ curUndo[b] - 1 <= Len(liveUndos[b])
      BY <1>5, <2>1
  <2>4. undos[b] \cup {liveUndos[b][curUndo[b]]} \in SUBSET Nat
      BY <1>5, <2>2
  <2> QED
      BY <1>4, <2>1, <2>3, <2>4, ToggleTypes DEF ChainInv
<1>8. ASSUME Redo(b) PROVE EditorTypes'
  <2>1. curUndo[b] < Len(liveUndos[b])
        /\ ToggleUndo(b, curUndo[b] + 1, undos[b] \ {liveUndos[b][curUndo[b] + 1]})
      BY <1>8 DEF Redo
  <2>2. curUndo[b] + 1 \in Nat /\ curUndo[b] + 1 <= Len(liveUndos[b])
      BY <1>5, <2>1
  <2>3. undos[b] \ {liveUndos[b][curUndo[b] + 1]} \in SUBSET Nat
      BY <1>5
  <2> QED
      BY <1>4, <2>1, <2>2, <2>3, ToggleTypes DEF ChainInv
<1>9. ASSUME Touch(b) PROVE EditorTypes'
  <2>1. UndoInBounds'
      BY <1>9 DEF Touch, ChainInv, EditorTypes, UndoInBounds
  <2> QED
      BY <1>4, <1>9, <2>1 DEF Touch, ChainInv, EditorTypes
<1> QED
    BY <1>1, <1>2, <1>4, <1>6, <1>7, <1>8, <1>9 DEF ChainInv, EditorStep
-----------------------------------------------------------------------------
\* Counting a revision down, with the collection it may end in.
LEMMA DecTypes ==
    ASSUME EditorTypes, NEW b \in Buffers, DecRevsInFlight(b)
    PROVE  EditorTypes'
<1>1. /\ revsInFlight' \in [Buffers -> Int]
      /\ UNCHANGED <<head, lastRev, liveUndos, curUndo, undoGroup>>
    BY DEF DecRevsInFlight, EditorTypes
<1>2. UndoInBounds'
    BY <1>1 DEF EditorTypes, UndoInBounds
<1>3. CASE UNCHANGED <<revs, undos, gcUndos>>
    BY <1>1, <1>2, <1>3 DEF EditorTypes
<1>4. CASE /\ \E faded \in SUBSET Fading(b) :
                revs' = [revs EXCEPT ![b] = AfterGc(b) \ faded]
           /\ undos' = [undos EXCEPT ![b] = @ \ gcUndos[b]]
           /\ gcUndos' = [gcUndos EXCEPT ![b] = {}]
  <2>1. PICK faded \in SUBSET Fading(b) : revs' = [revs EXCEPT ![b] = AfterGc(b) \ faded]
      BY <1>4
  <2>5. AfterGc(b) \ faded \in SUBSET [id : Nat, group : Int]
      BY DEF EditorTypes, AfterGc
  <2>2. undos[b] \ gcUndos[b] \in SUBSET Nat
      BY DEF EditorTypes
  <2>3. revs' \in [Buffers -> SUBSET [id : Nat, group : Int]]
      BY <2>1, <2>5 DEF EditorTypes
  <2>4. undos' \in [Buffers -> SUBSET Nat] /\ gcUndos' \in [Buffers -> SUBSET Nat]
      BY <1>4, <2>2 DEF EditorTypes
  <2> QED
      BY <1>1, <1>2, <2>3, <2>4 DEF EditorTypes
<1> QED
    BY <1>3, <1>4 DEF DecRevsInFlight

\* One chain moves to another record.
LEMMA ChainMoves ==
    ASSUME ChainTypes, FlagIsChain, NEW p \in Plugins, NEW r \in Chains,
           r.pc # "none" => r.upd \in Updates /\ r.view \in Buffers,
           chain' = [chain EXCEPT ![p] = r],
           coalesced' \in [Plugins -> Updates \cup {NoUpdate}],
           inFlight' = [inFlight EXCEPT ![p] = (r.pc # "none")]
    PROVE  ChainTypes' /\ FlagIsChain'
<1>1. chain' \in [Plugins -> Chains]
    BY DEF ChainTypes
<1>2. (r.pc # "none") \in BOOLEAN
    OBVIOUS
<1>3. inFlight' \in [Plugins -> BOOLEAN]
    BY <1>2, Zenon DEF ChainTypes
<1>4. \A q \in Plugins : chain'[q].pc # "none" =>
          chain'[q].upd \in Updates /\ chain'[q].view \in Buffers
    BY DEF ChainTypes
<1>5. ASSUME NEW q \in Plugins PROVE inFlight'[q] <=> chain'[q].pc # "none"
  <2>1. CASE q = p
    <3>1. inFlight'[q] = (r.pc # "none") /\ chain'[q] = r
        BY <2>1 DEF ChainTypes
    <3> QED
        BY <3>1
  <2>2. CASE q # p
    <3>1. inFlight'[q] = inFlight[q] /\ chain'[q] = chain[q]
        BY <2>2 DEF ChainTypes
    <3> QED
        BY <3>1 DEF FlagIsChain
  <2> QED
      BY <2>1, <2>2
<1> QED
    BY <1>1, <1>3, <1>4, <1>5 DEF ChainTypes, FlagIsChain

\* Plugin::update, the store of an update that waits, and the end of the offers.
LEMMA CorePreserves ==
    ASSUME ChainInv, CoreStep
    PROVE  ChainInv'
<1> USE DEF ChainInv
<1>1. ASSUME NEW p \in Plugins, OfferUpdate(p) PROVE ChainInv'
  <2>1. core.buf \in Buffers /\ lastRev[core.buf] \in Nat /\ CoreUpdate \in Updates
      BY <1>1 DEF OfferUpdate, CoreTypes, EditorTypes, CoreUpdate, Updates
  <2>2. EditorTypes'
    <3>1. revsInFlight' \in [Buffers -> Int] /\ UndoInBounds'
        BY <1>1, <2>1 DEF OfferUpdate, EditorTypes, UndoInBounds
    <3> QED
        BY <1>1, <3>1 DEF OfferUpdate, EditorTypes
  <2>3. ASSUME inFlight[p] PROVE ChainInv'
    <3>1. core' = [core EXCEPT !.pc = "store", !.plugin = p]
          /\ UNCHANGED <<inFlight, chain, pipe, coalesced, running, timed, up, answers, has>>
        BY <1>1, <2>3 DEF OfferUpdate
    <3>2. CoreTypes' /\ FreeIsIdle'
        BY <2>1, <3>1 DEF CoreTypes, FreeIsIdle
    <3>3. ChainTypes' /\ FlagIsChain' /\ ProcessTypes'
        BY <3>1 DEF ChainTypes, FlagIsChain, ProcessTypes
    <3> QED
        BY <2>2, <3>2, <3>3
  <2>4. ASSUME ~inFlight[p] PROVE ChainInv'
    <3> DEFINE wedged == ~timed[p] /\ ~up[p]
               sent == ~timed[p] /\ up[p]
               r == [pc |-> IF wedged THEN "finish" ELSE IF sent THEN "await" ELSE "send",
                     upd |-> CoreUpdate, view |-> core.buf, locked |-> wedged]
    <3>1. /\ inFlight' = [inFlight EXCEPT ![p] = TRUE]
          /\ chain' = [chain EXCEPT ![p] = r]
          /\ pipe' = IF sent THEN [pipe EXCEPT ![p] = Append(@, CoreUpdate)] ELSE pipe
          /\ core' = IF wedged THEN [core EXCEPT !.pc = "wedged"]
                               ELSE [core EXCEPT !.todo = @ \ {p}]
          /\ UNCHANGED <<running, coalesced, timed, up, answers, has>>
        BY <1>1, <2>4, Zenon DEF OfferUpdate
    <3>2. wedged \in BOOLEAN
        BY Zenon
    <3>3. pipe' \in [Plugins -> Seq(Updates)]
      <4>1. Append(pipe[p], CoreUpdate) \in Seq(Updates)
          BY <2>1, AppendProperties DEF ProcessTypes
      <4> QED
          BY <3>1, <4>1 DEF ProcessTypes
    <3> HIDE DEF wedged, sent
    <3>4. CoreTypes' /\ FreeIsIdle'
      <4>1. CASE core' = [core EXCEPT !.pc = "wedged"]
          BY <2>1, <4>1 DEF CoreTypes, FreeIsIdle
      <4>2. CASE core' = [core EXCEPT !.todo = @ \ {p}]
          BY <1>1, <2>1, <4>2 DEF CoreTypes, FreeIsIdle, OfferUpdate
      <4> QED
          BY <3>1, <4>1, <4>2
    <3>5. r \in Chains /\ r.pc # "none" /\ r.upd \in Updates /\ r.view \in Buffers
        BY <2>1, <3>2 DEF Chains, ChainPcs
    <3> HIDE DEF r
    <3>6. inFlight' = [inFlight EXCEPT ![p] = (r.pc # "none")]
      <4>1. (r.pc # "none") = TRUE
          BY <3>5
      <4> QED
          BY <3>1, <4>1, Zenon
    <3>7. coalesced' \in [Plugins -> Updates \cup {NoUpdate}]
        BY <3>1 DEF ChainTypes
    <3>8. ChainTypes' /\ FlagIsChain'
        BY <3>1, <3>5, <3>6, <3>7, ChainMoves
    <3>9. ProcessTypes'
        BY <3>1, <3>3 DEF ProcessTypes
    <3> QED
        BY <2>2, <3>4, <3>8, <3>9
  <2> QED
      BY <2>3, <2>4
<1>2. ASSUME StoreUpdate PROVE ChainInv'
  <2>1. core.buf \in Buffers /\ lastRev[core.buf] \in Nat /\ CoreUpdate \in Updates
      BY <1>2 DEF StoreUpdate, CoreTypes, EditorTypes, CoreUpdate, Updates
  <2>2. EditorTypes'
    <3>1. UndoInBounds'
        BY <1>2 DEF StoreUpdate, EditorTypes, editorVars, UndoInBounds
    <3> QED
        BY <1>2, <3>1 DEF StoreUpdate, EditorTypes, editorVars
  <2>3. CoreTypes' /\ FreeIsIdle'
      BY <1>2, <2>1 DEF StoreUpdate, CoreTypes, FreeIsIdle
  <2>4. coalesced' \in [Plugins -> Updates \cup {NoUpdate}]
      BY <1>2, <2>1 DEF StoreUpdate, ChainTypes
  <2>5. ChainTypes' /\ FlagIsChain' /\ ProcessTypes'
      BY <1>2, <2>4 DEF StoreUpdate, ChainTypes, FlagIsChain, ProcessTypes
  <2> QED
      BY <2>2, <2>3, <2>5
<1>3. ASSUME UpdatesOffered PROVE ChainInv'
  <2>1. core.buf \in Buffers /\ DecRevsInFlight(core.buf) /\ core' = Free
        /\ UNCHANGED pluginVars
      BY <1>3 DEF UpdatesOffered, CoreTypes
  <2>2. EditorTypes'
      BY <2>1, DecTypes
  <2>3. CoreTypes' /\ FreeIsIdle'
      BY <2>1 DEF CoreTypes, FreeIsIdle, Free
  <2>4. ChainTypes' /\ FlagIsChain' /\ ProcessTypes'
      BY <2>1 DEF pluginVars, ChainTypes, FlagIsChain, ProcessTypes
  <2> QED
      BY <2>2, <2>3, <2>4
<1> QED
    BY <1>1, <1>2, <1>3 DEF CoreStep

\* What a step that leaves a part alone keeps of it.
LEMMA EditorKept == EditorTypes /\ UNCHANGED editorVars => EditorTypes'
<1> SUFFICES ASSUME EditorTypes, UNCHANGED editorVars PROVE EditorTypes'
    OBVIOUS
<1>1. UndoInBounds'
    BY DEF EditorTypes, editorVars, UndoInBounds
<1> QED
    BY <1>1 DEF EditorTypes, editorVars

LEMMA CoreKept == CoreTypes /\ FreeIsIdle /\ UNCHANGED core => CoreTypes' /\ FreeIsIdle'
BY DEF CoreTypes, FreeIsIdle

LEMMA ChainKept ==
    ChainTypes /\ FlagIsChain /\ UNCHANGED <<inFlight, coalesced, chain>>
        => ChainTypes' /\ FlagIsChain'
BY DEF ChainTypes, FlagIsChain

\* A chain that exists takes a step and goes on.
LEMMA ChainGoesOn ==
    ASSUME ChainInv, NEW p \in Plugins, chain[p].pc # "none", NEW r \in Chains,
           r.pc # "none", r.upd \in Updates, r.view \in Buffers,
           chain' = [chain EXCEPT ![p] = r], UNCHANGED inFlight,
           coalesced' \in [Plugins -> Updates \cup {NoUpdate}]
    PROVE  ChainTypes' /\ FlagIsChain'
<1>1. inFlight[p] \in BOOLEAN /\ inFlight \in [Plugins -> BOOLEAN]
    BY DEF ChainInv, ChainTypes
<1>2. inFlight[p] = TRUE
    BY <1>1 DEF ChainInv, FlagIsChain
<1>3. (r.pc # "none") = TRUE
    OBVIOUS
<1>4. inFlight' = [inFlight EXCEPT ![p] = (r.pc # "none")]
    BY <1>1, <1>2, <1>3
<1> QED
    BY <1>4, ChainMoves DEF ChainInv

\* The finish closures of a plugin.
LEMMA ChainPreserves ==
    ASSUME ChainInv, NEW p \in Plugins, ChainStep(p) \/ Timeout(p)
    PROVE  ChainInv'
<1> USE DEF ChainInv
<1>1. /\ chain[p] \in Chains /\ coalesced[p] \in Updates \cup {NoUpdate}
      /\ chain[p].pc # "none" => chain[p].upd \in Updates /\ chain[p].view \in Buffers
      /\ timed[p] \in BOOLEAN
      /\ coalesced \in [Plugins -> Updates \cup {NoUpdate}]
    BY DEF ChainTypes, ProcessTypes
<1>2. ASSUME NEW to \in ChainPcs \ {"none"}, To(p, to), chain[p].pc # "none",
             UNCHANGED <<inFlight, coalesced>>
      PROVE  ChainTypes' /\ FlagIsChain'
  <2> DEFINE r == [chain[p] EXCEPT !.pc = to]
  <2>1. chain' = [chain EXCEPT ![p] = r]
      BY <1>2 DEF To
  <2>2. r \in Chains /\ r.pc # "none" /\ r.upd \in Updates /\ r.view \in Buffers
      BY <1>1, <1>2 DEF Chains
  <2> HIDE DEF r
  <2> QED
      BY <1>1, <1>2, <2>1, <2>2, ChainGoesOn
<1>3. ASSUME chain[p].pc # "none", UNCHANGED <<inFlight, coalesced>>,
             chain' = [chain EXCEPT ![p].pc = "finish", ![p].locked = ~timed[p]]
      PROVE  ChainTypes' /\ FlagIsChain'
  <2> DEFINE l == ~timed[p]
             r == [chain[p] EXCEPT !.pc = "finish", !.locked = l]
  <2>1. l \in BOOLEAN
      BY Zenon
  <2>2. chain' = [chain EXCEPT ![p] = r]
    <3>1. chain' = [chain EXCEPT ![p].pc = "finish", ![p].locked = l]
        BY <1>3, Zenon
    <3> HIDE DEF l
    <3> QED
        BY <3>1 DEF ChainTypes
  <2> HIDE DEF l
  <2>3. r \in Chains /\ r.pc # "none" /\ r.upd \in Updates /\ r.view \in Buffers
      BY <1>1, <1>3, <2>1 DEF Chains, ChainPcs
  <2> HIDE DEF r
  <2> QED
      BY <1>1, <1>3, <2>2, <2>3, ChainGoesOn
<1>4. ASSUME SendUpdate(p) PROVE ChainInv'
  <2>1. chain[p].pc = "send" /\ UNCHANGED <<inFlight, coalesced>>
        /\ UNCHANGED editorVars /\ UNCHANGED core
        /\ UNCHANGED <<running, timed, up, answers, has>>
      BY <1>4 DEF SendUpdate
  <2>2. ChainTypes' /\ FlagIsChain'
      BY <1>2, <1>3, <1>4, <2>1 DEF SendUpdate, ChainPcs
  <2>3. Append(pipe[p], chain[p].upd) \in Seq(Updates)
      BY <1>1, <2>1, AppendProperties DEF ProcessTypes
  <2>4. pipe' \in [Plugins -> Seq(Updates)]
      BY <1>4, <2>3 DEF SendUpdate, ProcessTypes
  <2>5. ProcessTypes'
      BY <2>1, <2>4 DEF ProcessTypes
  <2> QED
      BY <2>1, <2>2, <2>5, EditorKept, CoreKept
<1>5. ASSUME TakeAnswer(p) PROVE ChainInv'
  <2>1. UNCHANGED <<inFlight, coalesced>> /\ UNCHANGED editorVars /\ UNCHANGED core
        /\ UNCHANGED <<running, timed, up, pipe, has>>
      BY <1>5 DEF TakeAnswer
  <2>2. ChainTypes' /\ FlagIsChain'
      BY <1>2, <1>5, <2>1, ChainKept DEF TakeAnswer, ChainPcs
  <2>3. Tail(answers[p]) \in Seq(Updates)
      BY <1>5, HeadTailProperties DEF TakeAnswer, ProcessTypes
  <2>4. answers' \in [Plugins -> Seq(Updates)]
      BY <1>5, <2>3 DEF TakeAnswer, ProcessTypes
  <2>5. ProcessTypes'
      BY <2>1, <2>4 DEF ProcessTypes
  <2> QED
      BY <2>1, <2>2, <2>5, EditorKept, CoreKept
<1>6. ASSUME Disconnect(p) \/ Timeout(p) \/ Breach(p) \/ Terminate(p) PROVE ChainInv'
  <2>1. chain[p].pc # "none" /\ UNCHANGED <<inFlight, coalesced>>
        /\ UNCHANGED editorVars /\ UNCHANGED core
        /\ UNCHANGED <<running, timed, up, pipe, answers, has>>
      BY <1>6 DEF Disconnect, Timeout, Breach, Terminate
  <2>2. ChainTypes' /\ FlagIsChain'
      BY <1>2, <1>3, <1>6, <2>1 DEF Disconnect, Timeout, Breach, Terminate, ChainPcs
  <2>3. ProcessTypes'
      BY <2>1 DEF ProcessTypes
  <2> QED
      BY <2>1, <2>2, <2>3, EditorKept, CoreKept
<1>7. ASSUME HandlePluginUpdate(p) PROVE ChainInv'
  <2>1. chain[p].pc # "none" /\ UNCHANGED <<inFlight, coalesced>> /\ UNCHANGED core
        /\ UNCHANGED <<running, timed, up, pipe, answers, has>>
        /\ To(p, "take")
        /\ (DecRevsInFlight(chain[p].view) \/ UNCHANGED editorVars)
      BY <1>7 DEF HandlePluginUpdate
  <2>2. ChainTypes' /\ FlagIsChain'
      BY <1>2, <2>1 DEF ChainPcs
  <2>3. ProcessTypes'
      BY <2>1 DEF ProcessTypes
  <2>4. EditorTypes'
      BY <1>1, <2>1, DecTypes, EditorKept
  <2> QED
      BY <2>1, <2>2, <2>3, <2>4, CoreKept
<1>8. ASSUME TakeCoalesced(p) PROVE ChainInv'
  <2>1. chain[p].pc = "take" /\ UNCHANGED inFlight /\ UNCHANGED editorVars /\ UNCHANGED core
        /\ UNCHANGED <<running, timed, up, pipe, answers, has>>
        /\ coalesced' = [coalesced EXCEPT ![p] = NoUpdate]
      BY <1>8 DEF TakeCoalesced
  <2>2. coalesced' \in [Plugins -> Updates \cup {NoUpdate}]
      BY <1>1, <2>1
  <2> DEFINE r == IF coalesced[p] = NoUpdate
                  THEN [chain[p] EXCEPT !.pc = "clear"]
                  ELSE [chain[p] EXCEPT !.pc = "send", !.upd = coalesced[p]]
  <2>3. chain' = [chain EXCEPT ![p] = r]
      BY <1>8 DEF TakeCoalesced, ChainTypes
  <2>4. r \in Chains /\ r.pc # "none" /\ r.upd \in Updates /\ r.view \in Buffers
      BY <1>1, <2>1 DEF Chains, ChainPcs
  <2> HIDE DEF r
  <2>5. ChainTypes' /\ FlagIsChain'
      BY <2>1, <2>2, <2>3, <2>4, ChainGoesOn
  <2>6. ProcessTypes'
      BY <2>1 DEF ProcessTypes
  <2> QED
      BY <2>1, <2>5, <2>6, EditorKept, CoreKept
<1>9. ASSUME ClearInFlight(p) PROVE ChainInv'
  <2>1. UNCHANGED editorVars /\ UNCHANGED core /\ UNCHANGED coalesced
        /\ UNCHANGED <<running, timed, up, pipe, answers, has>>
        /\ inFlight' = [inFlight EXCEPT ![p] = FALSE]
        /\ chain' = [chain EXCEPT ![p] = Idle]
      BY <1>9 DEF ClearInFlight
  <2>2. Idle \in Chains /\ Idle.pc = "none"
      BY DEF Idle, Chains, ChainPcs
  <2>3. inFlight' = [inFlight EXCEPT ![p] = (Idle.pc # "none")]
    <3>1. (Idle.pc # "none") = FALSE
        BY <2>2
    <3> QED
        BY <2>1, <3>1, Zenon
  <2>4. ChainTypes' /\ FlagIsChain'
      BY <1>1, <2>1, <2>2, <2>3, ChainMoves
  <2>5. ProcessTypes'
      BY <2>1 DEF ProcessTypes
  <2> QED
      BY <2>1, <2>4, <2>5, EditorKept, CoreKept
<1> QED
    BY <1>4, <1>5, <1>6, <1>7, <1>8, <1>9 DEF ChainStep

\* The plugin processes, their edits and their end.
LEMMA PluginPreserves ==
    ASSUME ChainInv, NEW p \in Plugins, PluginStep(p)
    PROVE  ChainInv'
<1> USE DEF ChainInv
<1>1. ASSUME DoUpdate(p) PROVE ChainInv'
  <2>1. Head(pipe[p]) \in Updates /\ Tail(pipe[p]) \in Seq(Updates)
      BY <1>1, HeadTailProperties DEF DoUpdate, ProcessTypes
  <2>2. Append(answers[p], Head(pipe[p])) \in Seq(Updates)
      BY <2>1, AppendProperties DEF ProcessTypes
  <2>3. pipe' \in [Plugins -> Seq(Updates)] /\ answers' \in [Plugins -> Seq(Updates)]
      BY <1>1, <2>1, <2>2 DEF DoUpdate, ProcessTypes
  <2>4. has' \in [Plugins -> [Buffers -> Nat]]
    <3>1. Head(pipe[p]).buf \in Buffers /\ Head(pipe[p]).rev \in Nat
        BY <2>1 DEF Updates
    <3>2. [has[p] EXCEPT ![Head(pipe[p]).buf] = Head(pipe[p]).rev] \in [Buffers -> Nat]
        BY <3>1 DEF ProcessTypes
    <3>3. has' = [has EXCEPT ![p] = [has[p] EXCEPT ![Head(pipe[p]).buf] = Head(pipe[p]).rev]]
        BY <1>1 DEF DoUpdate, ProcessTypes
    <3> QED
        BY <3>2, <3>3 DEF ProcessTypes
  <2>5. ProcessTypes'
      BY <1>1, <2>3, <2>4 DEF DoUpdate, ProcessTypes
  <2> QED
      BY <1>1, <2>5, EditorKept, CoreKept, ChainKept DEF DoUpdate
<1>2. ASSUME Exit(p) \/ PluginExit(p) PROVE ChainInv'
  <2>1. UNCHANGED editorVars /\ UNCHANGED core /\ UNCHANGED <<inFlight, coalesced, chain>>
        /\ UNCHANGED <<timed, pipe, answers, has>>
      BY <1>2 DEF Exit, PluginExit
  <2>2. running' \subseteq Plugins
      BY <1>2 DEF Exit, PluginExit, ProcessTypes
  <2>3. up' \in [Plugins -> BOOLEAN]
      BY <1>2, Zenon DEF Exit, PluginExit, ProcessTypes
  <2>4. ProcessTypes'
      BY <2>1, <2>2, <2>3 DEF ProcessTypes
  <2> QED
      BY <2>1, <2>4, EditorKept, CoreKept, ChainKept
<1>3. ASSUME NEW b \in Buffers, ApplyEdit(p, b) PROVE ChainInv'
  <2>1. UNCHANGED <<lastRev, revsInFlight>> /\ UNCHANGED core /\ UNCHANGED pluginVars
      BY <1>3 DEF ApplyEdit
  <2>2. lastRev' \in [Buffers -> Nat] /\ revsInFlight' \in [Buffers -> Int]
      BY <2>1 DEF EditorTypes
  <2>3. EditorTypes'
    <3>1. ASSUME CalculateUndoGroup(b, FALSE),
                 NewEdit(b, undoGroup[b]) \/ UNCHANGED <<head, revs, undos>>
          PROVE  EditorTypes'
      <4>1. undoGroup[b] \in Nat /\ FALSE \in BOOLEAN
          BY DEF EditorTypes
      <4>2. /\ liveUndos' \in [Buffers -> Seq(Nat)]
            /\ curUndo' \in [Buffers -> Nat] /\ undoGroup' \in [Buffers -> Nat]
            /\ gcUndos' \in [Buffers -> SUBSET Nat] /\ UndoInBounds'
          BY <3>1, <4>1, UndoGroupTypes
      <4>3. /\ head' \in [Buffers -> Nat] /\ undos' \in [Buffers -> SUBSET Nat]
            /\ revs' \in [Buffers -> SUBSET [id : Nat, group : Int]]
        <5>1. CASE NewEdit(b, undoGroup[b])
            BY <4>1, <5>1, NewEditTypes
        <5>2. CASE UNCHANGED <<head, revs, undos>>
            BY <5>2 DEF EditorTypes
        <5> QED
            BY <3>1, <5>1, <5>2
      <4> QED
          BY <2>2, <4>2, <4>3 DEF EditorTypes
    <3>2. ASSUME NEW g \in 0 .. undoGroup[b] - 1, NewEdit(b, g),
                 UNCHANGED <<liveUndos, curUndo, gcUndos, undoGroup>>
          PROVE  EditorTypes'
      <4>1. g \in Nat
          BY <3>2 DEF EditorTypes
      <4>2. /\ head' \in [Buffers -> Nat] /\ undos' \in [Buffers -> SUBSET Nat]
            /\ revs' \in [Buffers -> SUBSET [id : Nat, group : Int]]
          BY <3>2, <4>1, NewEditTypes
      <4>3. UndoInBounds'
          BY <3>2 DEF EditorTypes, UndoInBounds
      <4> QED
          BY <2>2, <3>2, <4>2, <4>3 DEF EditorTypes
    <3>3. \/ /\ CalculateUndoGroup(b, FALSE)
             /\ NewEdit(b, undoGroup[b]) \/ UNCHANGED <<head, revs, undos>>
          \/ /\ \E g \in 0 .. undoGroup[b] - 1 : NewEdit(b, g)
             /\ UNCHANGED <<liveUndos, curUndo, gcUndos, undoGroup>>
        BY <1>3 DEF ApplyEdit
    <3> QED
        BY <3>1, <3>2, <3>3
  <2>4. ProcessTypes'
      BY <2>1 DEF pluginVars, ProcessTypes
  <2> QED
      BY <2>1, <2>3, <2>4, CoreKept, ChainKept DEF pluginVars
<1> QED
    BY <1>1, <1>2, <1>3, ChainPreserves DEF PluginStep

LEMMA ChainStuttering == ChainInv /\ UNCHANGED vars => ChainInv'
<1> SUFFICES ASSUME ChainInv, UNCHANGED vars PROVE ChainInv'
    OBVIOUS
<1>1. UNCHANGED editorVars /\ UNCHANGED core /\ UNCHANGED pluginVars
    BY DEF vars
<1>2. ProcessTypes'
    BY <1>1 DEF ChainInv, pluginVars, ProcessTypes
<1> QED
    BY <1>1, <1>2, EditorKept, CoreKept, ChainKept DEF ChainInv, pluginVars

\* Every command of the user, the closing of a view among them.
LEMMA EditorPreserves ==
    ASSUME ChainInv, NEW b \in Buffers, EditorStep(b)
    PROVE  ChainInv' /\ UNCHANGED pluginVars
<1>1. ASSUME CloseView(b) PROVE ChainInv' /\ UNCHANGED pluginVars
  <2>1. UNCHANGED editorVars /\ UNCHANGED core /\ UNCHANGED pluginVars
      BY <1>1 DEF CloseView
  <2>2. ProcessTypes'
      BY <2>1 DEF ChainInv, pluginVars, ProcessTypes
  <2> QED
      BY <2>1, <2>2, EditorKept, CoreKept, ChainKept DEF ChainInv, pluginVars
<1> QED
    BY <1>1, EditPreserves

LEMMA ChainNext == ChainInv /\ [Next]_vars => ChainInv'
BY EditorPreserves, CorePreserves, ChainPreserves, PluginPreserves, ChainStuttering DEF Next

LEMMA ChainAlways == Spec => []ChainInv
BY ChainInit, ChainNext, PTL DEF Spec

\* Views are closed and never opened.
LEMMA ViewsAlways == Spec => []ViewTypes
<1>1. Init => ViewTypes
    BY DEF Init, ViewTypes
<1>2. ViewTypes /\ [Next]_vars => ViewTypes'
  <2> SUFFICES ASSUME ViewTypes, [Next]_vars PROVE ViewTypes'
      OBVIOUS
  <2>1. ASSUME NEW b \in Buffers, EditorStep(b) PROVE ViewTypes'
      BY <2>1 DEF EditorStep, Edit, Undo, Redo, Touch, CloseView, ViewTypes
  <2>2. ASSUME CoreStep PROVE views' = views
      BY <2>2 DEF CoreStep, StoreUpdate, UpdatesOffered, OfferUpdate
  <2>3. ASSUME NEW p \in Plugins, ChainStep(p) PROVE views' = views
      BY <2>3 DEF ChainStep, SendUpdate, TakeAnswer, Disconnect, Breach, Terminate,
                  HandlePluginUpdate, TakeCoalesced, ClearInFlight
  <2>4. ASSUME NEW p \in Plugins, PluginStep(p) PROVE views' = views
      BY <2>4 DEF PluginStep, DoUpdate, Exit, PluginExit, Timeout, ApplyEdit
  <2>5. UNCHANGED vars => views' = views
      BY DEF vars
  <2> QED
      BY <2>1, <2>2, <2>3, <2>4, <2>5 DEF Next, ViewTypes
<1> QED
    BY <1>1, <1>2, PTL DEF Spec

\* update_in_flight is set exactly while a chain of finish closures exists, whatever
\* exits and times out: a plugin never has two updates driven at once, and none is
\* left with the flag set and nobody to clear it.
THEOREM ChainIsFlagged == Spec => []OneUpdateChain
<1>1. ChainInv /\ ViewTypes => OneUpdateChain
    BY TypesInParts DEF ChainInv, FlagIsChain, OneUpdateChain, EditorTypes
<1> QED
    BY ChainAlways, ViewsAlways, <1>1, PTL
-----------------------------------------------------------------------------
(* The revisions in flight *)

\* What the count needs of the sets it counts.
LEMMA CountedSets ==
    ASSUME NEW S \in SUBSET Plugins, NEW T \in SUBSET Plugins
    PROVE  /\ Cardinality(S) \in Nat
           /\ T \subseteq S => Cardinality(T) <= Cardinality(S)
           /\ \A p \in Plugins : T \subseteq S \cup {p} => Cardinality(T) <= Cardinality(S) + 1
           /\ \A p \in S : T \subseteq S \ {p} => Cardinality(T) <= Cardinality(S) - 1
<1>1. IsFiniteSet(S) /\ IsFiniteSet(T) /\ Cardinality(S) \in Nat /\ Cardinality(T) \in Nat
    BY PluginsAssumption, FS_Subset, FS_CardinalityType
<1>2. T \subseteq S => Cardinality(T) <= Cardinality(S)
    BY <1>1, FS_Subset
<1>3. ASSUME NEW p \in Plugins, T \subseteq S \cup {p}
      PROVE  Cardinality(T) <= Cardinality(S) + 1
  <2>1. IsFiniteSet(S \cup {p}) /\ Cardinality(S \cup {p}) <= Cardinality(S) + 1
    <3>1. CASE p \in S
      <4>1. S \cup {p} = S
          BY <3>1
      <4> QED
          BY <1>1, <4>1
    <3>2. CASE p \notin S
      <4>1. IsFiniteSet(S \cup {p}) /\ Cardinality(S \cup {p}) = Cardinality(S) + 1
          BY <1>1, <3>2, FS_AddElement, Zenon
      <4> QED
          BY <1>1, <4>1
    <3> QED
        BY <3>1, <3>2
  <2>2. Cardinality(S \cup {p}) \in Nat
      BY <2>1, FS_CardinalityType
  <2> QED
      BY <1>1, <1>3, <2>1, <2>2, FS_Subset
<1>4. ASSUME NEW p \in S, T \subseteq S \ {p}
      PROVE  Cardinality(T) <= Cardinality(S) - 1
  <2>1. IsFiniteSet(S \ {p}) /\ Cardinality(S \ {p}) = Cardinality(S) - 1
      BY <1>1, FS_RemoveElement
  <2>2. Cardinality(T) <= Cardinality(S \ {p})
      BY <1>4, <2>1, FS_Subset
  <2> QED
      BY <2>1, <2>2
<1> QED
    BY <1>1, <1>2, <1>3, <1>4

\* The revisions of one buffer, and what they have to cover.
Covered(b) ==
    revsInFlight[b] >= Offering(b) + Cardinality(Outstanding(b)) + Cardinality(Waiting(b))

\* A step that offers nothing new keeps the cover.
LEMMA CoverKept ==
    ASSUME ChainInv, NEW b \in Buffers, Covered(b),
           revsInFlight'[b] \in Int, Offering(b)' \in Int,
           revsInFlight'[b] - revsInFlight[b] >= Offering(b)' - Offering(b),
           Outstanding(b)' \subseteq Outstanding(b), Waiting(b)' \subseteq Waiting(b)
    PROVE  Covered(b)'
<1>1. /\ Outstanding(b) \in SUBSET Plugins /\ Outstanding(b)' \in SUBSET Plugins
      /\ Waiting(b) \in SUBSET Plugins /\ Waiting(b)' \in SUBSET Plugins
    BY DEF Outstanding, Waiting
<1>2. /\ Cardinality(Outstanding(b)) \in Nat /\ Cardinality(Outstanding(b)') \in Nat
      /\ Cardinality(Waiting(b)) \in Nat /\ Cardinality(Waiting(b)') \in Nat
      /\ Cardinality(Outstanding(b)') <= Cardinality(Outstanding(b))
      /\ Cardinality(Waiting(b)') <= Cardinality(Waiting(b))
    BY <1>1, CountedSets
<1>3. revsInFlight[b] \in Int /\ Offering(b) \in Int
    BY DEF ChainInv, EditorTypes, Offering
<1> QED
    BY <1>2, <1>3 DEF Covered

\* A step that offers p an update, or stores one, has counted it.
LEMMA CoverGrows ==
    ASSUME ChainInv, NEW b \in Buffers, Covered(b), NEW p \in Plugins,
           revsInFlight'[b] \in Int, Offering(b)' \in Int,
           revsInFlight'[b] - revsInFlight[b] >= Offering(b)' - Offering(b) + 1,
           \/ /\ Outstanding(b)' \subseteq Outstanding(b) \cup {p}
              /\ Waiting(b)' \subseteq Waiting(b)
           \/ /\ Outstanding(b)' \subseteq Outstanding(b)
              /\ Waiting(b)' \subseteq Waiting(b) \cup {p}
    PROVE  Covered(b)'
<1>1. /\ Outstanding(b) \in SUBSET Plugins /\ Outstanding(b)' \in SUBSET Plugins
      /\ Waiting(b) \in SUBSET Plugins /\ Waiting(b)' \in SUBSET Plugins
    BY DEF Outstanding, Waiting
<1>2. /\ Cardinality(Outstanding(b)) \in Nat /\ Cardinality(Outstanding(b)') \in Nat
      /\ Cardinality(Waiting(b)) \in Nat /\ Cardinality(Waiting(b)') \in Nat
    BY <1>1, CountedSets
<1>3. Cardinality(Outstanding(b)') + Cardinality(Waiting(b)')
          <= Cardinality(Outstanding(b)) + Cardinality(Waiting(b)) + 1
  <2>1. CASE /\ Outstanding(b)' \subseteq Outstanding(b) \cup {p}
             /\ Waiting(b)' \subseteq Waiting(b)
    <3>1. Cardinality(Outstanding(b)') <= Cardinality(Outstanding(b)) + 1
        BY <1>1, <2>1, CountedSets
    <3>2. Cardinality(Waiting(b)') <= Cardinality(Waiting(b))
        BY <1>1, <2>1, CountedSets
    <3> QED
        BY <1>2, <3>1, <3>2
  <2>2. CASE /\ Outstanding(b)' \subseteq Outstanding(b)
             /\ Waiting(b)' \subseteq Waiting(b) \cup {p}
    <3>1. Cardinality(Waiting(b)') <= Cardinality(Waiting(b)) + 1
        BY <1>1, <2>2, CountedSets
    <3>2. Cardinality(Outstanding(b)') <= Cardinality(Outstanding(b))
        BY <1>1, <2>2, CountedSets
    <3> QED
        BY <1>2, <3>1, <3>2
  <2> QED
      BY <2>1, <2>2
<1>4. revsInFlight[b] \in Int /\ Offering(b) \in Int
    BY DEF ChainInv, EditorTypes, Offering
<1> QED
    BY <1>2, <1>3, <1>4 DEF Covered

\* While the chains answer for the buffers they began with, every step keeps the
\* revisions ahead of the updates, of the buffer it is about and of the others.
LEMMA CoverNext ==
    ASSUME ViewsKept, ChainInv, ChainInv', RevsCoverUpdates, [Next]_vars
    PROVE  RevsCoverUpdates'
<1> SUFFICES ASSUME NEW b \in Buffers PROVE Covered(b)'
    BY DEF RevsCoverUpdates, Covered
<1>0. /\ Covered(b) /\ revsInFlight[b] \in Int /\ revsInFlight'[b] \in Int
      /\ Offering(b) \in Int /\ Offering(b)' \in Int
      /\ revsInFlight \in [Buffers -> Int]
      /\ core.pc \in {"free", "poisoned"} => Offering(b) = 0
    BY NoneAssumption DEF RevsCoverUpdates, Covered, ChainInv, EditorTypes, Offering, FreeIsIdle
<1>1. ASSUME NEW d \in Buffers, EditorStep(d) PROVE Covered(b)'
  <2>1. UNCHANGED pluginVars /\ core.pc = "free" /\ (AfterEdit(d) \/ CloseView(d))
      BY <1>1, EditorPreserves DEF EditorStep, Edit, Undo, Redo, Touch, CloseView
  <2>2. Outstanding(b)' = Outstanding(b) /\ Waiting(b)' = Waiting(b)
      BY <2>1 DEF pluginVars, Outstanding, Waiting
  <2>3. revsInFlight'[b] - revsInFlight[b] >= Offering(b)' - Offering(b)
    <3>1. CASE AfterEdit(d)
        BY <1>0, <2>1, <3>1, NoneAssumption DEF AfterEdit, Offering, Free
    <3>2. CASE CloseView(d)
        BY <1>0, <3>2 DEF CloseView, editorVars, Offering
    <3> QED
        BY <2>1, <3>1, <3>2
  <2> QED
      BY <1>0, <2>2, <2>3, CoverKept
<1>2. ASSUME NEW p \in Plugins, OfferUpdate(p) PROVE Covered(b)'
  <2>0. ASSUME core.buf # b PROVE Covered(b)'
    <3>1. /\ core'.buf = core.buf /\ UNCHANGED coalesced
          /\ revsInFlight'[b] = revsInFlight[b]
        BY <1>0, <1>2, <2>0 DEF OfferUpdate, ChainInv, CoreTypes
    <3>2. Waiting(b)' = Waiting(b) /\ Offering(b) = 0 /\ Offering(b)' = 0
        BY <2>0, <3>1 DEF Waiting, Offering
    <3>3. \A q \in Plugins : chain'[q] = chain[q] \/ chain'[q].upd.buf = core.buf
        BY <1>2 DEF OfferUpdate, CoreUpdate, ChainInv, ChainTypes
    <3>4. Outstanding(b)' \subseteq Outstanding(b)
        BY <2>0, <3>3 DEF Outstanding
    <3> QED
        BY <1>0, <3>1, <3>2, <3>4, CoverKept
  <2> SUFFICES ASSUME core.buf = b PROVE Covered(b)'
      BY <2>0
  <2>1. core.pc = "update" /\ core.buf = b /\ UNCHANGED coalesced
        /\ revsInFlight'[b] = revsInFlight[b] + 1
      BY <1>0, <1>2 DEF OfferUpdate, ChainInv, CoreTypes
  <2>2. Waiting(b)' = Waiting(b)
      BY <2>1 DEF Waiting
  <2>3. Offering(b) = 1
      BY <2>1 DEF Offering
  <2>4. CASE inFlight[p]
    <3>1. core' = [core EXCEPT !.pc = "store", !.plugin = p] /\ UNCHANGED chain
        BY <1>2, <2>4 DEF OfferUpdate
    <3>2. Offering(b)' = 2
        BY <2>1, <3>1 DEF Offering, ChainInv, CoreTypes
    <3>3. Outstanding(b)' = Outstanding(b)
        BY <3>1 DEF Outstanding
    <3> QED
        BY <1>0, <2>1, <2>2, <2>3, <3>2, <3>3, CoverKept
  <2>5. CASE ~inFlight[p]
    <3>1. core'.buf = b /\ core'.pc # "store"
        BY <1>2, <2>1, <2>5 DEF OfferUpdate, ChainInv, CoreTypes
    <3>2. Offering(b)' = 1
        BY <3>1 DEF Offering
    <3>3. Outstanding(b)' \subseteq Outstanding(b) \cup {p}
      <4>1. \A q \in Plugins \ {p} : chain'[q] = chain[q]
          BY <1>2, <2>5 DEF OfferUpdate, ChainInv, ChainTypes
      <4> QED
          BY <4>1 DEF Outstanding
    <3> QED
        BY <1>0, <2>1, <2>2, <2>3, <3>2, <3>3, CoverGrows
  <2> QED
      BY <2>4, <2>5
<1>3. ASSUME StoreUpdate PROVE Covered(b)'
  <2>0. ASSUME core.buf # b PROVE Covered(b)'
    <3>1. /\ core'.buf = core.buf /\ UNCHANGED <<revsInFlight, chain>>
          /\ coalesced' = [coalesced EXCEPT ![core.plugin] = CoreUpdate]
        BY <1>3 DEF StoreUpdate, ChainInv, CoreTypes, editorVars
    <3>2. Outstanding(b)' = Outstanding(b) /\ Offering(b) = 0 /\ Offering(b)' = 0
        BY <2>0, <3>1 DEF Outstanding, Offering
    <3>3. CoreUpdate.buf = core.buf
        BY DEF CoreUpdate
    <3>4. Waiting(b)' \subseteq Waiting(b)
        BY <2>0, <3>1, <3>3 DEF Waiting, ChainInv, ChainTypes
    <3> QED
        BY <1>0, <3>1, <3>2, <3>4, CoverKept
  <2> SUFFICES ASSUME core.buf = b PROVE Covered(b)'
      BY <2>0
  <2>1. core.pc = "store" /\ core.buf = b /\ core.plugin \in Plugins
        /\ coalesced' = [coalesced EXCEPT ![core.plugin] = CoreUpdate]
        /\ core'.pc = "update" /\ core'.buf = b /\ UNCHANGED <<revsInFlight, chain>>
      BY <1>3 DEF StoreUpdate, ChainInv, CoreTypes, editorVars
  <2>2. Offering(b) = 2 /\ Offering(b)' = 1
      BY <2>1 DEF Offering
  <2>3. Outstanding(b)' = Outstanding(b)
      BY <2>1 DEF Outstanding
  <2>4. Waiting(b)' \subseteq Waiting(b) \cup {core.plugin}
      BY <2>1 DEF Waiting, ChainInv, ChainTypes
  <2> QED
      BY <1>0, <2>1, <2>2, <2>3, <2>4, CoverGrows
<1>4. ASSUME UpdatesOffered PROVE Covered(b)'
  <2>0. ASSUME core.buf # b PROVE Covered(b)'
    <3>1. core' = Free /\ UNCHANGED pluginVars /\ revsInFlight'[b] = revsInFlight[b]
        BY <1>0, <1>4, <2>0 DEF UpdatesOffered, DecRevsInFlight, ChainInv, CoreTypes
    <3>2. Offering(b) = 0 /\ Offering(b)' = 0
        BY <2>0, <3>1, NoneAssumption DEF Offering, Free
    <3>3. Outstanding(b)' = Outstanding(b) /\ Waiting(b)' = Waiting(b)
        BY <3>1 DEF pluginVars, Outstanding, Waiting
    <3> QED
        BY <1>0, <3>1, <3>2, <3>3, CoverKept
  <2> SUFFICES ASSUME core.buf = b PROVE Covered(b)'
      BY <2>0
  <2>1. core.pc = "update" /\ core.buf = b /\ core' = Free /\ UNCHANGED pluginVars
        /\ revsInFlight'[b] = revsInFlight[b] - 1
      BY <1>0, <1>4 DEF UpdatesOffered, DecRevsInFlight, ChainInv, CoreTypes
  <2>2. Offering(b) = 1 /\ Offering(b)' = 0
      BY <2>1, NoneAssumption DEF Offering, Free
  <2>3. Outstanding(b)' = Outstanding(b) /\ Waiting(b)' = Waiting(b)
      BY <2>1 DEF pluginVars, Outstanding, Waiting
  <2> QED
      BY <1>0, <2>1, <2>2, <2>3, CoverKept
<1>5. ASSUME NEW p \in Plugins, HandlePluginUpdate(p) PROVE Covered(b)'
  <2>1. /\ chain[p].pc = "finish" /\ chain[p].upd.buf = chain[p].view
        /\ To(p, "take") /\ UNCHANGED coalesced /\ UNCHANGED core
      BY <1>5 DEF HandlePluginUpdate, ViewsKept
  <2>2. Offering(b)' = Offering(b) /\ Waiting(b)' = Waiting(b)
      BY <2>1 DEF Offering, Waiting
  <2>3. Outstanding(b)' \subseteq Outstanding(b) \ {p}
      BY <2>1 DEF Outstanding, To, ChainInv, ChainTypes, Chains
  <2>4. CASE chain[p].view = b
    <3>1. revsInFlight'[b] >= revsInFlight[b] - 1
        BY <1>0, <1>5, <2>4 DEF HandlePluginUpdate, DecRevsInFlight, editorVars
    <3>2. p \in Outstanding(b)
        BY <2>1, <2>4 DEF Outstanding
    <3>3. Outstanding(b) \in SUBSET Plugins /\ Outstanding(b)' \in SUBSET Plugins
          /\ Waiting(b) \in SUBSET Plugins
        BY DEF Outstanding, Waiting
    <3>4. /\ Cardinality(Outstanding(b)') <= Cardinality(Outstanding(b)) - 1
          /\ Cardinality(Outstanding(b)) \in Nat /\ Cardinality(Outstanding(b)') \in Nat
          /\ Cardinality(Waiting(b)) \in Nat
        BY <2>3, <3>2, <3>3, CountedSets
    <3> QED
        BY <1>0, <2>2, <3>1, <3>4 DEF Covered
  <2>5. CASE chain[p].view # b
    <3>1. revsInFlight'[b] = revsInFlight[b]
        BY <1>0, <1>5, <2>5 DEF HandlePluginUpdate, DecRevsInFlight, editorVars
    <3>2. Outstanding(b)' \subseteq Outstanding(b)
        BY <2>3
    <3> QED
        BY <1>0, <2>2, <3>1, <3>2, CoverKept
  <2> QED
      BY <2>4, <2>5
<1>6. ASSUME NEW p \in Plugins, TakeCoalesced(p) PROVE Covered(b)'
  <2>1. /\ chain[p].pc = "take" /\ UNCHANGED core /\ revsInFlight' = revsInFlight
        /\ coalesced' = [coalesced EXCEPT ![p] = NoUpdate]
      BY <1>6 DEF TakeCoalesced, editorVars
  <2>2. Offering(b)' = Offering(b)
      BY <2>1 DEF Offering
  <2>3. CASE coalesced[p] = NoUpdate
    <3>1. chain' = [chain EXCEPT ![p].pc = "clear"]
        BY <1>6, <2>3 DEF TakeCoalesced
    <3>2. Outstanding(b)' \subseteq Outstanding(b)
        BY <2>1, <3>1 DEF Outstanding, ChainInv, ChainTypes, Chains
    <3>3. Waiting(b)' \subseteq Waiting(b)
        BY <2>1, <2>3 DEF Waiting, ChainInv, ChainTypes
    <3> QED
        BY <1>0, <2>1, <2>2, <3>2, <3>3, CoverKept
  <2>4. CASE coalesced[p] # NoUpdate /\ coalesced[p].buf # b
    <3>1. \A q \in Plugins : chain'[q] = chain[q] \/ chain'[q].upd = coalesced[p]
        BY <1>6, <2>4 DEF TakeCoalesced, ChainInv, ChainTypes, Chains
    <3>2. Outstanding(b)' \subseteq Outstanding(b)
        BY <2>4, <3>1 DEF Outstanding
    <3>3. Waiting(b)' \subseteq Waiting(b)
        BY <2>1, NoneAssumption DEF Waiting, ChainInv, ChainTypes, NoUpdate
    <3> QED
        BY <1>0, <2>1, <2>2, <3>2, <3>3, CoverKept
  <2>5. CASE coalesced[p] # NoUpdate /\ coalesced[p].buf = b
    <3>1. \A q \in Plugins \ {p} : chain'[q] = chain[q]
        BY <1>6, <2>5 DEF TakeCoalesced, ChainInv, ChainTypes
    <3>2. Outstanding(b)' \subseteq Outstanding(b) \cup {p}
        BY <3>1 DEF Outstanding
    <3>3. p \in Waiting(b)
        BY <2>5 DEF Waiting
    <3>4. Waiting(b)' \subseteq Waiting(b) \ {p}
        BY <2>1, NoneAssumption DEF Waiting, ChainInv, ChainTypes, NoUpdate
    <3>5. Outstanding(b) \in SUBSET Plugins /\ Outstanding(b)' \in SUBSET Plugins
          /\ Waiting(b) \in SUBSET Plugins /\ Waiting(b)' \in SUBSET Plugins
        BY DEF Outstanding, Waiting
    <3>6. Cardinality(Outstanding(b)') <= Cardinality(Outstanding(b)) + 1
        BY <3>2, <3>5, CountedSets
    <3>7. Cardinality(Waiting(b)') <= Cardinality(Waiting(b)) - 1
        BY <3>3, <3>4, <3>5, CountedSets
    <3>8. /\ Cardinality(Outstanding(b)) \in Nat /\ Cardinality(Outstanding(b)') \in Nat
          /\ Cardinality(Waiting(b)) \in Nat /\ Cardinality(Waiting(b)') \in Nat
        BY <3>5, CountedSets
    <3> QED
        BY <1>0, <2>1, <2>2, <3>6, <3>7, <3>8 DEF Covered
  <2> QED
      BY <2>3, <2>4, <2>5
<1>7. ASSUME NEW p \in Plugins,
             \/ SendUpdate(p) \/ TakeAnswer(p) \/ Disconnect(p) \/ Timeout(p)
             \/ Breach(p) \/ Terminate(p) \/ ClearInFlight(p)
      PROVE  Covered(b)'
  <2>1. UNCHANGED core /\ UNCHANGED coalesced /\ revsInFlight' = revsInFlight
      BY <1>7 DEF SendUpdate, TakeAnswer, Disconnect, Timeout, Breach, Terminate,
                  ClearInFlight, editorVars
  <2>2. Offering(b)' = Offering(b) /\ Waiting(b)' = Waiting(b)
      BY <2>1 DEF Offering, Waiting
  <2>3. \A q \in Plugins \ {p} : chain'[q] = chain[q]
      BY <1>7 DEF SendUpdate, TakeAnswer, Disconnect, Timeout, Breach, Terminate,
                  ClearInFlight, To, ChainInv, ChainTypes
  <2>4. \/ chain'[p].pc = "none"
        \/ chain'[p] = chain[p]
        \/ chain[p].pc \in {"send", "await", "breach", "kill"} /\ chain'[p].upd = chain[p].upd
      BY <1>7 DEF SendUpdate, TakeAnswer, Disconnect, Timeout, Breach, Terminate,
                  ClearInFlight, To, ChainInv, ChainTypes, Chains, Idle
  <2>5. Outstanding(b)' \subseteq Outstanding(b)
      BY <2>3, <2>4 DEF Outstanding
  <2> QED
      BY <1>0, <2>1, <2>2, <2>5, CoverKept
<1>8. ASSUME UNCHANGED <<core, chain, coalesced, revsInFlight>> PROVE Covered(b)'
  <2>1. Offering(b)' = Offering(b) /\ Waiting(b)' = Waiting(b) /\ Outstanding(b)' = Outstanding(b)
      BY <1>8 DEF Offering, Waiting, Outstanding
  <2> QED
      BY <1>0, <1>8, <2>1, CoverKept
<1>9. ASSUME NEW p \in Plugins,
             \/ DoUpdate(p) \/ Exit(p) \/ PluginExit(p) \/ \E d \in Buffers : ApplyEdit(p, d)
      PROVE  UNCHANGED <<core, chain, coalesced, revsInFlight>>
    BY <1>9 DEF DoUpdate, Exit, PluginExit, ApplyEdit, editorVars, pluginVars
<1>10. UNCHANGED vars => UNCHANGED <<core, chain, coalesced, revsInFlight>>
    BY DEF vars, editorVars, pluginVars
<1> QED
    BY <1>1, <1>2, <1>3, <1>4, <1>5, <1>6, <1>7, <1>8, <1>9, <1>10
    DEF Next, CoreStep, ChainStep, PluginStep

\* With any number of buffers and plugins: as long as no chain has gone on with an
\* update of another buffer than the one it began with, every update that was offered
\* and not yet answered, in flight or waiting in coalesced_update, holds one of its
\* buffer's revs_in_flight, and gc_undos never collects history under it.  Exits,
\* timeouts, closed views and replaced updates do not break the count; the view that
\* drive_plugin_update keeps for the whole chain is the only thing that does.
THEOREM UpdatesAreCovered == Spec => CoverWhileViewsKept
<1>1. Init => RevsCoverUpdates
  <2> SUFFICES ASSUME Init, NEW b \in Buffers PROVE Covered(b)
      BY DEF RevsCoverUpdates, Covered
  <2>1. Outstanding(b) = {} /\ Waiting(b) = {}
      BY NoneAssumption DEF Init, Outstanding, Waiting, Idle, NoUpdate
  <2>2. Offering(b) = 0 /\ revsInFlight[b] = 0
      BY NoneAssumption DEF Init, Offering, Free
  <2> QED
      BY <2>1, <2>2, FS_EmptySet DEF Covered
<1>2. ViewsKept /\ ChainInv /\ ChainInv' /\ RevsCoverUpdates /\ [Next]_vars
          => RevsCoverUpdates'
    BY CoverNext
<1> QED
    BY <1>1, <1>2, ChainAlways, PTL DEF Spec, CoverWhileViewsKept
=============================================================================
