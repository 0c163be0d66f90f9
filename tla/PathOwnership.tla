---------------------------- MODULE PathOwnership ----------------------------
(***************************************************************************)
(* PathOwnershipTable (src/core/agents/path-ownership.ts): which run or    *)
(* host tool call owns which workspace path while it may write to it.  A   *)
(* claim takes all its paths or, on a conflict with another owner, none.   *)
(***************************************************************************)
EXTENDS Naturals, Sequences, SequencesExt

CONSTANTS
  Owner,     \* SubAgent runs and host tool calls
  Path,      \* workspace paths, as non-empty sequences of segments
  NoOwner

VARIABLE owner   \* this.owners, NoOwner for an absent entry

\* pathsOverlap: equal, or one is a directory prefix of the other
Overlap(p, q) == IsPrefix(p, q) \/ IsPrefix(q, p)

\* Mutant: a directory does not conflict with the files in it.
ConflictSamePath(o, paths) == \E p \in paths : owner[p] \notin {o, NoOwner}

Conflict(o, paths) ==
  \E p \in paths, q \in Path : owner[q] \notin {o, NoOwner} /\ Overlap(p, q)

OwnershipInit == owner = [p \in Path |-> NoOwner]

Claim(o, paths) ==
  /\ ~Conflict(o, paths)
  /\ owner' = [p \in Path |-> IF p \in paths THEN o ELSE owner[p]]

\* A refused claim throws before it has changed anything.
RefuseClaim(o, paths) == Conflict(o, paths) /\ UNCHANGED owner

ReleaseAll(o) == owner' = [p \in Path |-> IF owner[p] = o THEN NoOwner ELSE owner[p]]

OwnershipNext ==
  \E o \in Owner : ReleaseAll(o) \/ \E paths \in SUBSET Path : Claim(o, paths) \/ RefuseClaim(o, paths)

OwnershipSpec == OwnershipInit /\ [][OwnershipNext]_owner

-----------------------------------------------------------------------------
OwnershipTypeOK == owner \in [Path -> Owner \cup {NoOwner}]

\* No two owners ever hold overlapping paths: concurrent writers are detected
\* whatever mixture of files and enclosing directories they claim.
ExclusivePaths ==
  \A p, q \in Path :
    owner[p] # NoOwner /\ owner[q] # NoOwner /\ Overlap(p, q) => owner[p] = owner[q]
=============================================================================
