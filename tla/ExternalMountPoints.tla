------------------------ MODULE ExternalMountPoints ------------------------
(***************************************************************************)
(* ExternalMountPoints (z-box/handler-store/external_m.cpp): file systems  *)
(* mounted under a name.  Paths of most types may not overlap; that is     *)
(* decided by looking at the two neighbours of the new path in a map       *)
(* ordered by the text of the normalised path.  The order of the characters*)
(* is what makes this right or wrong, so paths are sequences of characters,*)
(* numbered as ASCII orders them.                                          *)
(***************************************************************************)
EXTENDS Integers, Sequences, FiniteSets, SequencesExt

CONSTANTS
    Names,     \* mount names, sequences of characters too
    Paths,     \* paths given by callers
    None

Dash == 1
Dot == 2
Slash == 3
Letter == 4
Characters == Dash .. Letter

\* One media type stands for the two that may overlap, "local" for the others.
Types == {"local", "media"}

ASSUME PathsAssumption == Paths \subseteq Seq(Characters)
\* A name is appended to an empty path, and an absolute path is never appended.
ASSUME NamesAssumption ==
    IsFiniteSet(Names) /\ Names \subseteq {n \in Seq(Characters) : n = <<>> \/ n[1] # Slash}
ASSUME NoneAssumption == None \notin [type : Types, path : Seq(Characters)]

VARIABLES
    instances,   \* instance_map_: the type and path of each mounted name
    names,       \* path_to_name_map_, as a set of pairs
    reader       \* CrackFileSystemURL for a platform app: the look-up under way

vars == <<instances, names, reader>>

StripTrailingSeparators(p) ==
    SubSeq(p, 1, Max({i \in 1 .. Len(p) : i = 1 \/ p[i] # Slash} \cup {0}))

NormalizeFilePath(p) ==
    LET bare == StripTrailingSeparators(p)
    IN  IF p = <<>> \/ Last(bare) = Slash THEN bare ELSE Append(bare, Slash)

IsOverlappingMountPathForbidden(type) == type # "media"

IsAbsolute(p) == p # <<>> /\ p[1] = Slash

\* Where a component ends, and where the one that ends at i starts.
Ends(p, i) == p[i] # Slash /\ (i = Len(p) \/ p[i + 1] = Slash)
Start(p, i) == Max({0} \cup {j \in 1 .. i - 1 : p[j] = Slash}) + 1

\* The components of a path; an absolute one starts with the root.
Components(p) ==
    (IF IsAbsolute(p) THEN << <<Slash>> >> ELSE <<>>)
        \o FlattenSeq([i \in 1 .. Len(p) |-> IF Ends(p, i) THEN <<SubSeq(p, Start(p, i), i)>> ELSE <<>>])

\* Some component is "..".
HasParent(parts) == \E i \in DOMAIN parts : parts[i] = <<Dot, Dot>>
ReferencesParent(p) == HasParent(Components(p))

IsParent(p, q) == IsStrictPrefix(Components(p), Components(q))

\* The order of the map.
Before(p, q) ==
    \/ IsStrictPrefix(p, q)
    \/ \E i \in 1 .. Len(p) : /\ i <= Len(q) /\ p[i] < q[i]
                              /\ SubSeq(p, 1, i - 1) = SubSeq(q, 1, i - 1)

\* The entry upper_bound points at, and the one before it.
After(path) == {e \in names : Before(path, e.path)}
Upto(path) == names \ After(path)
UpperBound(path) == {e \in After(path) : \A f \in After(path) : f = e \/ Before(e.path, f.path)}
NotAbove(path) == {e \in Upto(path) : \A f \in Upto(path) : f = e \/ Before(f.path, e.path)}

Init ==
    /\ instances = [n \in Names |-> None]
    /\ names = {} /\ reader = None

-----------------------------------------------------------------------------

\* Mutant: only the neighbour above is looked at.
ValidateNewMountPointAbove(name, type, path) ==
    /\ name # <<>> /\ instances[name] = None
    /\ path # <<>> =>
          /\ ~ReferencesParent(path) /\ IsAbsolute(path)
          /\ IsOverlappingMountPathForbidden(type) =>
                \A e \in NotAbove(path) : e.path # path /\ ~IsParent(e.path, path)

ValidateNewMountPoint(name, type, path) ==
    /\ name # <<>> /\ instances[name] = None
    /\ path # <<>> =>
          /\ ~ReferencesParent(path) /\ IsAbsolute(path)
          /\ IsOverlappingMountPathForbidden(type) =>
                /\ \A e \in NotAbove(path) : e.path # path /\ ~IsParent(e.path, path)
                /\ \A e \in UpperBound(path) : e.path # path /\ ~IsParent(path, e.path)

\* The instance keeps the path without the trailing separator.
RegisterFileSystem(name, type, given) ==
    LET path == NormalizeFilePath(given)
    IN  /\ ValidateNewMountPoint(name, type, path)
        /\ instances' = [instances EXCEPT ![name] = [type |-> type, path |-> StripTrailingSeparators(path)]]
        /\ names' = IF path # <<>> /\ IsOverlappingMountPathForbidden(type)
                    THEN names \cup {[path |-> path, name |-> name]} ELSE names
        /\ UNCHANGED reader

\* A reader whose mount is revoked during its look-up.
Disturb(gone) ==
    IF reader # None /\ reader.name \in gone THEN [reader EXCEPT !.revoked = TRUE] ELSE reader

\* Mutant: the path is erased as the instance has it, not normalised.
RevokeFileSystemAsIs(name) ==
    /\ instances[name] # None
    /\ names' = {e \in names : e.path # instances[name].path}
    /\ instances' = [instances EXCEPT ![name] = None]
    /\ reader' = Disturb({name})

RevokeFileSystem(name) ==
    /\ instances[name] # None
    /\ names' = IF IsOverlappingMountPathForbidden(instances[name].type)
                THEN {e \in names : e.path # NormalizeFilePath(instances[name].path)} ELSE names
    /\ instances' = [instances EXCEPT ![name] = None]
    /\ reader' = Disturb({name})

RevokeAllFileSystems ==
    /\ instances' = [n \in Names |-> None]
    /\ names' = {}
    /\ reader' = Disturb(Names)

\* The components of the path a name becomes.
CreateVirtualRootPath(name) == Components(name)

\* The name of the mount that contains the path, and the components of the
\* virtual path: the name with the rest of the path appended.
GetVirtualPath(given) ==
    LET path == NormalizeFilePath(given)
        Rest(e) == SubSeq(Components(path), Len(Components(e.path)) + 1, Len(Components(path)))
    IN  {[name |-> e.name, path |-> CreateVirtualRootPath(e.name) \o Rest(e)] :
            e \in {f \in NotAbove(path) : f.path = path \/ IsParent(f.path, path)}}

\* CrackFileSystemURL for a path of a platform app, as ChromeOS builds it: the
\* virtual path is found in one critical section ...
FindVirtualPath(given) ==
    /\ reader = None
    /\ \E v \in GetVirtualPath(given) :
          reader' = [given |-> given, name |-> v.name, virtual |-> v.path, revoked |-> FALSE,
                     done |-> FALSE, urls |-> {}]
    /\ UNCHANGED <<instances, names>>

\* The path a virtual path stands for, if any: its first component is taken for
\* the name of a mount, the others are appended to the path of that mount.
CrackedIn(found, virtual) == {Components(instances[n].path) \o Tail(virtual) : n \in found}
Named(virtual) == {n \in Names : instances[n] # None /\ virtual # <<>> /\ n = virtual[1]}

\* Mutant: ".." is cracked like any other component.
CrackedAnyway(virtual) == CrackedIn(Named(virtual), virtual)

Cracked(virtual) == IF HasParent(virtual) THEN {} ELSE CrackedIn(Named(virtual), virtual)

\* ... and cracked in another, which gives one URL or none.
CrackVirtualPath ==
    /\ reader # None /\ ~reader.done
    /\ reader' = [reader EXCEPT !.done = TRUE, !.urls = Cracked(reader.virtual)]
    /\ UNCHANGED <<instances, names>>

ReaderDone ==
    /\ reader # None /\ reader.done
    /\ reader' = None
    /\ UNCHANGED <<instances, names>>

Next ==
    \/ \E n \in Names, t \in Types, p \in Paths : RegisterFileSystem(n, t, p)
    \/ \E n \in Names : RevokeFileSystem(n)
    \/ RevokeAllFileSystems
    \/ \E p \in Paths : FindVirtualPath(p)
    \/ CrackVirtualPath \/ ReaderDone

Spec == Init /\ [][Next]_vars

-----------------------------------------------------------------------------

Mounted == {n \in Names : instances[n] # None}
Exclusive == {n \in Mounted : /\ IsOverlappingMountPathForbidden(instances[n].type)
                              /\ instances[n].path # <<>>}

\* One path is the other or lies below it.
Covers(p, q) == IsPrefix(Components(p), Components(q))

TypeOK ==
    /\ \A n \in Mounted : instances[n].type \in Types /\ instances[n].path \in Seq(Characters)
    /\ \A e \in names : e.name \in Names /\ e.path \in Seq(Characters)
    /\ <<>> \notin Mounted

\* The two maps agree: a revoked mount leaves no path behind that would block
\* or answer for a later one, and no exclusive mount is without its path.
MapsAgree ==
    /\ TypeOK
    /\ names = {[path |-> NormalizeFilePath(instances[n].path), name |-> n] : n \in Exclusive}

\* GetVirtualPath's one neighbour finds the mount that contains a path whenever
\* there is one, and never another; and there is no second one: however mounts
\* come and go, ValidateNewMountPoint's look at two neighbours keeps exclusive
\* mounts from overlapping.
FindsTheMount ==
    \A p \in Paths \ {<<>>} :
        {v.name : v \in GetVirtualPath(p)} = {n \in Exclusive : Covers(instances[n].path, p)}

\* The name comes back as the first component of a path.
Plain(name) == Components(name) = <<name>>

\* A path that is turned into a virtual path and cracked in two critical
\* sections comes back as it was, unless ".." in it or in the name leaves no
\* URL, or the name has a separator and its first part stands for another mount.
\* If the mount was revoked in between, there is no URL or the name was mounted
\* anew, and the URL is the rest of the path below the path of that mount.
CrackedBack ==
    reader # None /\ reader.done =>
        LET up == ReferencesParent(reader.given) \/ ReferencesParent(reader.name)
        IN  /\ up => reader.urls = {}
            /\ Plain(reader.name) /\ ~up /\ ~reader.revoked =>
                  reader.urls = {Components(reader.given)}
            /\ Plain(reader.name) =>
                  \A u \in reader.urls :
                      \E p \in Paths : u = Components(p) \o Tail(reader.virtual)

=============================================================================
