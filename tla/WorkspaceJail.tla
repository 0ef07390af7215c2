---------------------------- MODULE WorkspaceJail ----------------------------
(***************************************************************************)
(* The workspace jail of crates/syntropy-exec (jail.rs): which path a      *)
(* command or a patch may name, in a directory tree with links.            *)
(*                                                                         *)
(* A path is the sequence of its components from the top; a node is named  *)
(* by its physical path.  A tree gives the kind of every node: "none",     *)
(* "dir", "file", or a link with its target.                               *)
(***************************************************************************)
EXTENDS Integers, Sequences, SequencesExt

CONSTANTS
    Names,      \* names of files and directories
    MaxLinks,   \* the links the operating system follows in a path ...
    MaxSteps,   \* ... and the steps it walks, before it gives up
    Root,       \* of the workspace
    Allowed,    \* the other allowed paths
    Trees,
    Paths       \* the paths that are asked for

Components == Names \cup {".."}

Nodes == [kind : {"none", "dir", "file"}] \cup
         [kind : {"link"}, abs : BOOLEAN, to : Seq(Components)]

ASSUME JailAssumption ==
    /\ ".." \notin Names /\ "/" \notin Names
    /\ MaxLinks \in Nat /\ MaxSteps \in Nat
    /\ \A tree \in Trees :
         DOMAIN tree \subseteq Seq(Names) /\ \A p \in DOMAIN tree : tree[p] \in Nodes
    /\ Root \in Seq(Components) /\ Allowed \subseteq Seq(Components)
    /\ Paths \subseteq [abs : BOOLEAN, comps : Seq(Components)]

KindOf(tree, p) == IF p \in DOMAIN tree THEN tree[p].kind ELSE "none"

-----------------------------------------------------------------------------
(* The operating system's walk along a path: where it is, what is left to  *)
(* go and how many links it may still follow.                              *)

Parent(p) == IF p = <<>> THEN p ELSE Front(p)

\* It stays where it is when it is done, when there is no such directory or
\* name, and at one link too many.
Step(tree, c) ==
    LET name == Head(c.comps)
        rest == Tail(c.comps)
        child == Append(c.at, name)
        kind == KindOf(tree, child)
    IN  IF c.comps = <<>> \/ KindOf(tree, c.at) # "dir" THEN c
        ELSE IF name = ".."
        THEN [at |-> Parent(c.at), comps |-> rest, links |-> c.links]
        ELSE IF kind \in {"dir", "file"}
        THEN [at |-> child, comps |-> rest, links |-> c.links]
        ELSE IF kind = "link" /\ c.links > 0
        THEN [at |-> IF tree[child].abs THEN <<>> ELSE c.at,
              comps |-> tree[child].to \o rest, links |-> c.links - 1]
        ELSE c

Start(path) == [at |-> <<>>, comps |-> path, links |-> MaxLinks]

Walk(tree, path) ==
    LET walk[n \in Nat] == IF n = 0 THEN Start(path) ELSE Step(tree, walk[n - 1])
    IN  walk

Missing == <<"/">>

canonicalize(tree, path) ==
    LET c == Walk(tree, path)[MaxSteps]
    IN  IF c.comps = <<>> THEN c.at ELSE Missing
exists(tree, path) == Walk(tree, path)[MaxSteps].comps = <<>>

Lexical(tree, path) == path
CanonicalAncestor(tree, path) == canonicalize(tree, path)

-----------------------------------------------------------------------------
\* The canonical root and the allowed paths, resolved if they exist when the
\* jail is made.
with_allowed_paths(tree, root, allowed) ==
    [root |-> canonicalize(tree, root),
     allowed |-> {IF exists(tree, p) THEN canonicalize(tree, p) ELSE p : p \in allowed}]

is_path_within(base, target) == IsPrefix(base, target)

is_contained(jail, path) ==
    \E base \in {jail.root} \cup jail.allowed : is_path_within(base, path)

OutsideWorkspace == [ok |-> FALSE]

Target(jail, path) == IF path.abs THEN path.comps ELSE jail.root \o path.comps

\* A path that does not exist is resolved from its deepest ancestor that does;
\* the walk up stops at "..".
resolve_path(jail, tree, path) ==
    LET target == Target(jail, path)
        n == CHOOSE k \in 0..Len(target) :
               /\ exists(tree, SubSeq(target, 1, k))
               /\ \A j \in (k + 1)..Len(target) : ~exists(tree, SubSeq(target, 1, j))
        ancestor == CanonicalAncestor(tree, SubSeq(target, 1, n))
        rest == SubSeq(target, n + 1, Len(target))
        resolved == ancestor \o rest
    IN  IF \/ Contains(rest, "..")
           \/ ~is_contained(jail, ancestor) \/ ~is_contained(jail, resolved)
        THEN OutsideWorkspace
        ELSE [ok |-> TRUE, path |-> resolved]

check_contained(jail, tree, path) ==
    LET r == resolve_path(jail, tree, path)
    IN  IF r.ok /\ is_contained(jail, r.path) THEN r ELSE OutsideWorkspace

\* None, like the empty path, is the root.
validate_cwd(jail, tree, path) ==
    LET r == resolve_path(jail, tree, path)
    IN  IF r.ok /\ KindOf(tree, canonicalize(tree, r.path)) = "dir" THEN r
        ELSE OutsideWorkspace

-----------------------------------------------------------------------------
(* What the jail promises.                                                 *)

\* With one more link, or step, the walk would have got farther.
GaveUp(tree, path) ==
    LET c == Walk(tree, path)[MaxSteps]
        more == [c EXCEPT !.links = @ + 1]
    IN  Step(tree, more) # more

\* What is accepted stays inside, by whatever links and ".." a path goes: an
\* existing path is accepted exactly when what it leads to lies below the root
\* or an allowed path, and is resolved to that.  Of an accepted path, new or
\* not, every part that exists is where it says it is: using the path does not
\* follow a link any more, so that it ends below the root or an allowed path.
\* (Where the walk along the path that was asked for has given up, the code
\* takes for new what it could not reach.)
JailHoldsIn(tree) ==
    LET jail == with_allowed_paths(tree, Root, Allowed)
    IN  KindOf(tree, jail.root) = "dir" =>
          \A path \in Paths :
            LET target == Target(jail, path)
                r == resolve_path(jail, tree, path)
                cwd == validate_cwd(jail, tree, path)
            IN  /\ exists(tree, target) =>
                     /\ r.ok <=> is_contained(jail, canonicalize(tree, target))
                     /\ r.ok => r.path = canonicalize(tree, target)
                /\ r.ok =>
                     /\ is_contained(jail, r.path)
                     /\ check_contained(jail, tree, path) = r
                     /\ \A k \in 0..Len(r.path) :
                          LET p == SubSeq(r.path, 1, k)
                          IN  exists(tree, p) /\ ~GaveUp(tree, target) =>
                                canonicalize(tree, p) = p
                /\ cwd.ok =>
                     /\ cwd = r
                     /\ KindOf(tree, cwd.path) = "dir" \/ GaveUp(tree, target)
=============================================================================
