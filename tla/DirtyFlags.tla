----------------------------- MODULE DirtyFlags -----------------------------
(***************************************************************************)
(* The three-valued cache validity of sigmut (core/dirty.rs) and the two   *)
(* levels a notification may carry (DirtyLevel in core.rs).  A source's    *)
(* entry for a sink is one of the three values while it exists, and        *)
(* "Unbound" once its slab slot is empty.                                  *)
(***************************************************************************)

Dirty == {"Clean", "MaybeDirty", "Dirty"}

DirtyLevel == {"MaybeDirty", "Dirty"}

Entry == Dirty \cup {"Unbound"}

\* DirtyLevel::maybe_if: a source that may turn out unchanged only says "maybe".
MaybeIf(level, filter) == IF filter THEN "MaybeDirty" ELSE level

\* Dirty::from_is_dirty.
FromIsDirty(isDirty) == IF isDirty THEN "Dirty" ELSE "Clean"

\* Mutant: a flag that is only "maybe" notifies again.
NeedsNotifyAgain(d) == d # "Dirty"

\* Dirty::needs_notify: a flag that is set already has told its dependants.
NeedsNotify(d) == d = "Clean"

\* Mutant: the last notification wins.
ApplyNotifyLast(d, level) == level

\* Dirty::apply_notify: the maximum in the order Clean < MaybeDirty < Dirty.
ApplyNotify(d, level) == IF d = "Dirty" THEN "Dirty" ELSE level

=============================================================================
