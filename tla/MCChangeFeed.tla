---------------------------- MODULE MCChangeFeed ----------------------------
(* A change feed over the two models of the crate, with ages of few bits. *)
EXTENDS ChangeFeed, VecModel, SlabModel

IsVec(m) == m.kind = "vec"

BothModels == {NewVec, NewSlab}
EditsOf(m) == IF IsVec(m) THEN VecEdits(m) ELSE SlabEdits(m)
ReleaseOf(m, c) == IF IsVec(m) THEN VecRelease(m, c) ELSE SlabRelease(m, c)
ResolveOf(m, c) == IF IsVec(m) THEN VecResolve(m, c) ELSE SlabResolve(m, c)
InitialOf(m) == IF IsVec(m) THEN VecInitial(m) ELSE SlabInitial(m)
EmptyOf(m) == [kind |-> m.kind, of |-> <<>>]
ViewOf(m) == [kind |-> m.kind, of |-> IF IsVec(m) THEN VecView(m) ELSE SlabView(m)]
ReplayOf(v, d) ==
    [v EXCEPT !.of = IF v.kind = "vec" THEN VecReplay(@, d) ELSE SlabReplay(@, d)]
StoredOf(m) == IF IsVec(m) THEN VecStored(m) ELSE SlabStored(m)
LiveOf(m) == IF IsVec(m) THEN VecLive(m) ELSE Existing(m)
NamesOf(c) == IF "key" \in DOMAIN c THEN SlabNames(c) ELSE VecNames(c)
FreesOf(c) == IF "key" \in DOMAIN c THEN SlabFrees(c) ELSE VecFrees(c)

\* Two readers and two borrows at a time over a slab map, one of each over a list, which is
\* longer: the collections differ in the edits, the readers do not see which one they follow.
FewWithVec ==
    IsVec(history.cur) => /\ Cardinality({r \in Reader : Alive(r)}) <= 1
                          /\ Cardinality(guards) <= 1

Symmetry == Permutations(Reader) \cup Permutations(VecKey)
=============================================================================
