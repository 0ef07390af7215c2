---------------------------- MODULE MCPatchCommit ----------------------------
(***************************************************************************)
(* Tasks that patch one file, and beside them the pure algorithms on a     *)
(* patch's way, the jail that resolves its path and the formats it may     *)
(* come in, against their references: before any task has begun, an input  *)
(* may be picked and looked at, and nothing follows.                       *)
(***************************************************************************)
EXTENDS PatchCommit, PatchText, WorkspaceJail

VARIABLE input

Patch == [dry_run |-> FALSE, full |-> FALSE, expected |-> AnyHash]

MCAsked == {Patch, [Patch EXCEPT !.dry_run = TRUE], [Patch EXCEPT !.full = TRUE],
            [Patch EXCEPT !.expected = {}]}

Symmetry == Permutations(Tasks)

-----------------------------------------------------------------------------
(* Small directory trees: the workspace /w with a, a/b and b, and /o with  *)
(* a (a directory) and b.                                                  *)

Dir == [kind |-> "dir"]
Link(abs, to) == [kind |-> "link", abs |-> abs, to |-> to]
SmallNodes ==
    {[kind |-> "none"], Dir, [kind |-> "file"], Link(TRUE, <<"o">>),
     Link(TRUE, <<"o", "a">>), Link(TRUE, <<"w", "b">>), Link(FALSE, <<"..">>),
     Link(FALSE, <<"b">>), Link(FALSE, <<"..", "o", "b">>)}

SmallTrees ==
    {[p \in {<<>>, <<"w">>, <<"o">>, <<"o", "a">>, <<"w", "a">>, <<"w", "b">>,
             <<"w", "a", "b">>, <<"o", "b">>} |->
        CASE p = <<"w", "a">> -> k[1]
          [] p = <<"w", "b">> -> k[2]
          [] p = <<"w", "a", "b">> -> k[3]
          [] p = <<"o", "b">> -> k[4]
          [] OTHER -> Dir] :
        k \in {k \in SmallNodes \X SmallNodes \X SmallNodes
                         \X {[kind |-> "none"], [kind |-> "file"]} :
                 k[1] = Dir \/ k[3].kind = "none"}}

Below == {"a", "b", ".."}
SmallPaths ==
    [abs : {FALSE}, comps : BoundedSeq(Below, 3)] \cup
    [abs : {TRUE}, comps : {<<x>> \o s : x \in {"w", "o"}, s \in BoundedSeq(Below, 2)}]

MCRoot == <<"w">>
MCAllowed == {<<"o", "a">>}

-----------------------------------------------------------------------------
MCInit == Init /\ input = [kind |-> "none"]

PickInput ==
    /\ Init /\ file = {} /\ ~readonly
    /\ \/ \E text \in SmallTexts : input' = [kind |-> "text", text |-> text]
       \/ \E tree \in Trees : input' = [kind |-> "tree", tree |-> tree]
    /\ UNCHANGED vars

MCNext ==
    /\ input.kind = "none"
    /\ PickInput \/ (Next /\ UNCHANGED input)

MCSpec == MCInit /\ [][MCNext]_<<vars, input>>

\* See UnifiedDiffAppliesTo and ReplacementsDoNotShiftIn: what
\* apply_unified_diff_in_memory and apply_replacements_in_memory make of a text
\* is the edit that was asked for, on the lines it was asked for.
EditsApply ==
    input.kind = "text" => /\ UnifiedDiffAppliesTo(input.text)
                           /\ ReplacementsDoNotShiftIn(input.text)

\* See FormatsAgreeOn: the three formats of patches.
FormatsAgree == input.kind = "text" => FormatsAgreeOn(input.text)

\* See JailHoldsIn: resolve_path, check_contained and validate_cwd.
JailHolds == input.kind = "tree" => JailHoldsIn(input.tree)
=============================================================================
