------------------------------ MODULE ImageTags ------------------------------
(***************************************************************************)
(* Which tags of a registry are updates of a local tag                     *)
(* (adapters/docker/updates.py).  The patterns that read a tag's name are  *)
(* abstracted to the set of those it matches: 20240102 matches "sha",      *)
(* "numeric" and "date", 2024.01.02 "semver", "numeric" and "date".        *)
(***************************************************************************)
EXTENDS Integers, Sequences, FiniteSets, SequencesExt

CONSTANT MaxUpdates   \* MAX_UPDATES_PER_REPO

TagConstants == MaxUpdates \in Nat \ {0}

\* A tag: its name, the patterns that match it, its version <<major, minor>>
\* (without the suffix), its date, when it was pushed, and its digest (0 is
\* none).  A date may be missing, or be there and say nothing.
NoDate == 0
Unreadable == -1
NoDigest == 0

Dated(t) == t.pushed \notin {NoDate, Unreadable}

\* TagAnalyzer.analyze_tag: the first pattern that matches decides.
TagType(t) ==
    CASE t.name = "" -> "invalid"
      [] t.name # "" /\ "latest" \in t.matches -> "latest"
      [] t.name # "" /\ "latest" \notin t.matches /\ "sha" \in t.matches -> "sha"
      [] OTHER ->
           IF t.matches \cap {"semver", "release", "numeric"} # {} THEN "semver"
           ELSE IF "date" \notin t.matches THEN "custom"
           ELSE IF t.date # NoDate THEN "date" ELSE "invalid"

Priority(type) ==
    CASE type = "semver" -> 100 [] type = "date" -> 80 [] type = "latest" -> 60
      [] type = "sha" -> 40 [] type = "custom" -> 20 [] OTHER -> 0

Valid(t) == TagType(t) # "invalid"

LowerVersion(v, w) == v[1] < w[1] \/ (v[1] = w[1] /\ v[2] < w[2])

\* _compare_enhanced_tags: the remote tag is newer.
Newer(local, remote) ==
    /\ TagType(local) = TagType(remote)
    /\ CASE TagType(local) = "semver" -> LowerVersion(local.version, remote.version)
         [] TagType(local) = "date" -> local.date < remote.date
         [] OTHER -> Dated(local) /\ Dated(remote) /\ local.pushed < remote.pushed

\* The loop of _find_compatible_tag_updates.
Compatible(local, remote) ==
    /\ Valid(local) /\ Valid(remote)
    /\ IF local.name = remote.name
         THEN NoDigest \notin {local.digest, remote.digest} /\ local.digest # remote.digest
         ELSE /\ Newer(local, remote)
              /\ TagType(local) = "semver" => local.version[1] = remote.version[1]

\* EnhancedTagInfo.__lt__; names stand in their order, here by their length.
Below(s, t) ==
    IF TagType(s) # TagType(t) THEN Priority(TagType(s)) < Priority(TagType(t))
    ELSE CASE TagType(s) = "semver" -> LowerVersion(s.version, t.version)
           [] TagType(s) = "date" -> s.date < t.date
           [] OTHER -> IF Dated(s) /\ Dated(t) THEN s.pushed < t.pushed
                       ELSE Len(s.name) < Len(t.name)

\* _get_local_images: a reference is the path and the version of one tag of an
\* image.  Only the last two parts of the path count, so the same name at
\* another registry is the same repository; no version is "latest".
Repository(reference) ==
    LET n == Len(reference.path)
    IN  IF n >= 3 THEN SubSeq(reference.path, n - 1, n) ELSE reference.path

LocalTag(image, reference) ==
    [name |-> IF reference.version = "" THEN "latest" ELSE reference.version,
     matches |-> reference.matches, version |-> reference.number, date |-> reference.date,
     pushed |-> image.created, digest |-> image.digest]

\* The tags of each repository; an image without tags has none.
LocalImages(images) ==
    LET tagged == {t \in images \X UNION {i.references : i \in images} :
                     t[2] \in t[1].references}
    IN  [name \in {Repository(t[2]) : t \in tagged} |->
           {LocalTag(t[1], t[2]) : t \in {u \in tagged : Repository(u[2]) = name}}]

\* The updates of one local tag: the highest that are compatible.
TagUpdates(local, remotes) ==
    LET found == SetToSeq({t \in remotes : Compatible(local, t)})
        sorted == SortSeq(found, LAMBDA s, t : Below(t, s))
    IN  SubSeq(sorted, 1, IF Len(sorted) < MaxUpdates THEN Len(sorted) ELSE MaxUpdates)

\* The sort by push fails on a date that cannot be read; a missing one counts
\* as datetime.min, which has no time zone and compares with no other date.
SortFails(found) ==
    LET pushes == {u.newer.pushed : u \in ToSet(found)}
    IN  Unreadable \in pushes \/ (NoDate \in pushes /\ pushes # {NoDate})

\* process_repo: the updates of all local tags of a repository, latest push
\* first; a sort that fails leaves the repository without any.
RepositoryUpdates(locals, remotes) ==
    LET found == FlattenSeq(SetToSeq({[i \in DOMAIN TagUpdates(l, remotes) |->
                    [current |-> l, newer |-> TagUpdates(l, remotes)[i]]] : l \in {m \in locals : Valid(m)}}))
        sorted == SortSeq(found, LAMBDA p, q : p.newer.pushed > q.newer.pushed)
    IN  IF SortFails(found) THEN <<>>
        ELSE SubSeq(sorted, 1, IF Len(sorted) < MaxUpdates THEN Len(sorted) ELSE MaxUpdates)

\* prepare_context_for_render: the current tag shown is that of the first.
ShownCurrent(updates) == Head(updates).current

----------------------------------------------------------------------------
(* An update that is shown is an upgrade of the tag it was found for: of the *)
(* same kind and newer, or rebuilt under its name, never of another major    *)
(* version; a tag that is left out is not above one that is shown.           *)
UpdatesAreUpgrades(local, remotes) ==
    LET shown == TagUpdates(local, remotes)
        listed == ToSet(shown)
    IN  /\ \A t \in listed :
             /\ TagType(t) = TagType(local) /\ t # local
             /\ t.name # local.name => Newer(local, t) /\ ~Newer(t, local)
             /\ TagType(t) = "semver" /\ t.name # local.name => t.version[1] = local.version[1]
        /\ \A t \in listed, s \in remotes \ listed :
             Compatible(local, s) => ~Below(t, s)

(* The rows of a repository are updates of a local tag that uses it, and a   *)
(* row that is cut off was not pushed after one that is shown.               *)
RowsAreUpdates(locals, remotes) ==
    LET rows == RepositoryUpdates(locals, remotes)
        all  == UNION {{[current |-> l, newer |-> t] : t \in ToSet(TagUpdates(l, remotes))} :
                         l \in {m \in locals : Valid(m)}}
    IN  /\ ToSet(rows) \subseteq all
        /\ \A r \in all \ ToSet(rows) :
             \A i \in DOMAIN rows : r.newer.pushed <= rows[i].newer.pushed
=============================================================================
