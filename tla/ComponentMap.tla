---------------------------- MODULE ComponentMap ----------------------------
(***************************************************************************)
(* Which element of the build every file of the image belongs to:          *)
(* scripts/gen-filemap.py reads it from the output of "bst artifact        *)
(* list-contents" and writes files/filemap.json and a manifest of the same *)
(* claims; scripts/apply-xattrs.py, from the first, or                     *)
(* files/fakecap/fakecap-restore.c, from the second, writes it to extended *)
(* attributes of the files.                                                *)
(*                                                                         *)
(* External: BuildStream's listing, which comes line by line, and the file *)
(* system.  Elements and paths are numbered in the order of their names.   *)
(***************************************************************************)
EXTENDS Integers, FiniteSets

CONSTANTS
    Element,
    Layers,   \* the elements under oci/layers/
    File,     \* paths in listings and in the image
    PathOf,   \* a path as line.split() sees it: up to its first blank
    None,     \* no element
    MaxLines  \* entries in a listing (model checking only)

ASSUME OrderAssumption == Element \subseteq Int /\ File \subseteq Int
ASSUME FiniteAssumption == IsFiniteSet(Element) /\ IsFiniteSet(File)
ASSUME PathOfAssumption == PathOf \in [File -> File]
ASSUME NoneAssumption == None \notin Element
ASSUME MaxLinesAssumption == MaxLines \in Nat

VARIABLES
    pc,       \* "list", "listing", "apply", "done", "failed"
    elements, \* what list_elements returned
    header,   \* the element whose entries BuildStream is listing
    current,  \* the element that list_all_contents takes them for
    contents, \* list_all_contents: the paths of each element
    listed,   \* the entries BuildStream has listed, as <<element, file>>
    lines,
    writer,   \* "apply-xattrs" or "fakecap-restore"
    image,    \* what is at a path in the image: "absent", "reg", "link"
    claims,   \* the filemap, as <<element, path>>
    todo,     \* the claims that have not been written yet
    ok, skip, err,
    component, interval  \* the attributes: the elements they were written for

gen   == <<elements, header, current, contents, listed, lines>>
plan  == <<writer, image, claims>>
sums  == <<ok, skip, err>>
attrs == <<component, interval>>
vars  == <<pc, gen, plan, todo, sums, attrs>>

Claim == (Element \ Layers) \X File

TypeOK ==
    /\ pc \in {"list", "listing", "apply", "done", "failed"}
    /\ elements \subseteq Element
    /\ header \in Element \union {None} /\ current \in Element \union {None}
    /\ contents \in [Element -> SUBSET File]
    /\ listed \subseteq Element \X File
    /\ lines \in 0 .. MaxLines
    /\ writer \in {"apply-xattrs", "fakecap-restore"}
    /\ image \in [File -> {"absent", "reg", "link"}]
    /\ claims \subseteq Claim /\ todo \subseteq claims
    /\ ok \in Nat /\ skip \in Nat /\ err \in Nat
    /\ component \in [File -> Element \union {None}]
    /\ interval \in [File -> Element \union {None}]

Init ==
    /\ pc = "list"
    /\ elements = {} /\ header = None /\ current = None /\ lines = 0
    /\ contents = [e \in Element |-> {}] /\ listed = {}
    /\ writer \in {"apply-xattrs", "fakecap-restore"}
    /\ image \in [File -> {"absent", "reg", "link"}]
    /\ claims = {} /\ todo = {}
    /\ ok = 0 /\ skip = 0 /\ err = 0
    /\ component = [f \in File |-> None] /\ interval = [f \in File |-> None]

-----------------------------------------------------------------------------
(* gen-filemap.py                                                           *)

\* list_elements: an element that overrides its name is not among them.
ListElements ==
    /\ pc = "list"
    /\ elements' \in SUBSET Element
    /\ pc' = "listing"
    /\ UNCHANGED <<header, current, contents, listed, lines, plan, todo, sums, attrs>>

\* Either call of bst: its status becomes the script's.
BstFails ==
    /\ pc \in {"list", "listing"}
    /\ pc' = "failed"
    /\ UNCHANGED <<gen, plan, todo, sums, attrs>>

\* Mutant of Header: the merged layers are left out while reading.
HeaderSkipsLayers(e) ==
    /\ pc = "listing" /\ e \in elements
    /\ header' = e
    /\ current' = IF e \in Layers THEN current ELSE e
    /\ UNCHANGED <<pc, elements, contents, listed, lines, plan, todo, sums, attrs>>

Header(e) ==
    /\ pc = "listing" /\ e \in elements
    /\ header' = e /\ current' = e
    /\ UNCHANGED <<pc, elements, contents, listed, lines, plan, todo, sums, attrs>>

\* A file or a link.  Directories, lines of fewer than four words and entries
\* before any header change nothing.
Entry(f) ==
    /\ pc = "listing" /\ lines < MaxLines
    /\ lines' = lines + 1
    /\ header # None
    /\ listed' = listed \union {<<header, f>>}
    /\ contents' = IF current = None THEN contents
                   ELSE [contents EXCEPT ![current] = @ \union {PathOf[f]}]
    /\ UNCHANGED <<pc, elements, header, current, plan, todo, sums, attrs>>

\* The loop of main, with SKIP_PREFIXES.
Filemap == {c \in Claim : c[2] \in contents[c[1]]}

\* Both files are written, also when there are no claims: the manifest has a
\* first line in any case, so that the checks for a file that is not empty
\* (test -s in build-multirunner.yml, -s in chunkify) say nothing of them.
WriteFilemap ==
    /\ pc = "listing"
    /\ claims' = Filemap /\ todo' = Filemap
    /\ pc' = "apply"
    /\ UNCHANGED <<gen, writer, image, sums, attrs>>

-----------------------------------------------------------------------------
(* apply-xattrs.py and fakecap-restore                                      *)

Precedes(c, d) ==
    IF writer = "apply-xattrs"
      THEN c[1] < d[1] \/ (c[1] = d[1] /\ c[2] < d[2])
      ELSE c[2] < d[2] \/ (c[2] = d[2] /\ c[1] < d[1])

\* Mutant of IsNext: the manifest has its lines the other way round.
IsNextReversed(c) ==
    c \in todo /\ \A d \in todo \ {c} :
        IF writer = "apply-xattrs" THEN Precedes(c, d) ELSE Precedes(d, c)

\* The filemap goes element by element, the manifest path by path.
IsNext(c) == c \in todo /\ \A d \in todo \ {c} : Precedes(c, d)

Take(c) == pc = "apply" /\ IsNext(c) /\ todo' = todo \ {c} /\ UNCHANGED <<pc, gen, plan>>

SkipMissing(c) ==
    /\ Take(c) /\ image[c[2]] = "absent"
    /\ skip' = skip + 1
    /\ UNCHANGED <<ok, err, attrs>>

SetBoth(c) ==
    /\ Take(c) /\ image[c[2]] = "reg"
    /\ component' = [component EXCEPT ![c[2]] = c[1]]
    /\ interval' = [interval EXCEPT ![c[2]] = c[1]]
    /\ ok' = ok + 1
    /\ UNCHANGED <<skip, err>>

\* Mutant of ComponentFails: the counter stops with the warnings.
ComponentFailsQuietly(c) ==
    /\ Take(c) /\ image[c[2]] # "absent"
    /\ err' = IF err < 1 THEN err + 1 ELSE err
    /\ UNCHANGED <<ok, skip, attrs>>

\* A link has no user attributes; and the file system may have its reasons.
ComponentFails(c) ==
    /\ Take(c) /\ image[c[2]] # "absent"
    /\ err' = err + 1
    /\ UNCHANGED <<ok, skip, attrs>>

\* Mutant of IntervalFails: nobody looks.
IntervalFailsUnseen(c) ==
    /\ Take(c) /\ image[c[2]] = "reg"
    /\ component' = [component EXCEPT ![c[2]] = c[1]]
    /\ ok' = ok + 1
    /\ UNCHANGED <<skip, err, interval>>

\* The second attribute cannot be set: fakecap-restore does not look.
IntervalFails(c) ==
    /\ Take(c) /\ image[c[2]] = "reg"
    /\ component' = [component EXCEPT ![c[2]] = c[1]]
    /\ IF writer = "apply-xattrs"
         THEN err' = err + 1 /\ UNCHANGED ok
         ELSE ok' = ok + 1 /\ UNCHANGED err
    /\ UNCHANGED <<skip, interval>>

\* Whatever failed, the status is 0.
Report ==
    /\ pc = "apply" /\ todo = {}
    /\ pc' = "done"
    /\ UNCHANGED <<gen, plan, todo, sums, attrs>>

-----------------------------------------------------------------------------
Next ==
    \/ ListElements \/ BstFails \/ WriteFilemap \/ Report
    \/ \E e \in Element : Header(e)
    \/ \E f \in File : Entry(f)
    \/ \E c \in todo : SkipMissing(c) \/ SetBoth(c) \/ ComponentFails(c) \/ IntervalFails(c)

Spec == Init /\ [][Next]_vars

-----------------------------------------------------------------------------
(* Properties                                                               *)

\* A component of a file is an element that BuildStream listed the file under
\* (or one with the same words up to a blank), and never one of the layers,
\* which hold every element's files (gen-filemap.py:149-152).
ComponentIsOwner ==
    \A f \in File : component[f] # None =>
        /\ component[f] \notin Layers
        /\ \E c \in listed : c[1] = component[f] /\ PathOf[c[2]] = f

\* A file that several elements have goes to the last of them, in the order of
\* their names, whichever of the two programs writes the attributes: each
\* can stand in for the other (apply-xattrs.py:12-15).
LastOwnerWins ==
    pc = "done" /\ err = 0 =>
        \A c \in listed : \A f \in File :
            c[1] \notin Layers /\ f = PathOf[c[2]] /\ image[f] = "reg"
                => component[f] # None /\ component[f] >= c[1]

\* A run of apply-xattrs without errors leaves no file with the component of
\* one element and the update interval of another.
AttributesMatch ==
    writer = "apply-xattrs" /\ err = 0 => interval = component

\* The numbers of the last line of output account for every claim.
SumsAddUp == ok + skip + err + Cardinality(todo) = Cardinality(claims)

\* gen-filemap.py:118, "Skip directories and symlinks -- only claim
\* regular/executable files", which the code does not keep: without failures
\* of the file system, a link alone makes an error.
LinksNotClaimed == \A c \in claims : image[c[2]] # "link"
=============================================================================
