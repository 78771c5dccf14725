---------------------------- MODULE MCStageList ----------------------------
(***************************************************************************)
(* Build roots, packages and lists for TLC.                                *)
(***************************************************************************)
EXTENDS StageList, TLC

-----------------------------------------------------------------------------
(* Names, in the order of their strings.                                   *)

Etc == <<"etc">>
EtcA == <<"etc", "a">>
EtcD == <<"etc", "d">>
EtcDX == <<"etc", "d", "x">>
EtcDY == <<"etc", "d", "y">>
Dev == <<"dev">>
Dev1 == <<"dev", "n1">>
Dev2 == <<"dev", "n2">>
Lib == <<"lib">>
LibF == <<"lib", "f">>
LibFX == <<"lib", "f", "x">>
LibG == <<"lib", "g">>
L1 == <<"lib", "l1">>
L2 == <<"lib", "l2">>
L3 == <<"lib", "l3">>
L4 == <<"lib", "l4">>
Tmp == <<"tmp">>
TmpL == <<"tmp", "l">>
Pkg == <<"var", "db", "p">>
PkgF == <<"var", "db", "p", "f">>
New == <<"usr", "new">>
NewIn == <<New \o <<"f">>, New \o <<"g">>, New \o <<"l1">>, New \o <<"l2">>, New \o <<"l3">>, New \o <<"l4">>>>
MCNameOrder == <<<<>>, Dev, Dev1, Dev2, Etc, EtcA, EtcD, EtcDX, EtcDY, Lib, LibF, LibFX, LibG, L1, L2, L3, L4,
                 Tmp, TmpL, <<"usr">>, New>> \o NewIn \o <<<<"var">>, <<"var", "db">>, Pkg, PkgF>>

NodeOf(kind, inode, nlink, absolute, link) ==
    [kind |-> kind, inode |-> inode, nlink |-> nlink,
     link |-> [absolute |-> absolute, path |-> link]]
Directory == NodeOf("dir", 1, 1, FALSE, <<>>)
File(inode) == NodeOf("file", inode, 1, FALSE, <<>>)
Shared == NodeOf("file", 2, 3, FALSE, <<>>)     \* a file with three names
Fifo == NodeOf("fifo", 1, 1, FALSE, <<>>)
LinkTo(path) == NodeOf("symlink", 1, 1, FALSE, path)
AbsoluteLinkTo(path) == NodeOf("symlink", 1, 1, TRUE, path)

Host == <<"host", "f">>
MCOutside == <<"host">> :> Directory @@ Host :> File(9)

\* Links to links in /lib, one of them in a directory that is passed over.
Common == [p \in {<<>>, Dev, Etc, EtcD, Lib, Tmp, <<"var">>, <<"var", "db">>, Pkg} |-> Directory]
            @@ EtcA :> Shared @@ EtcDX :> File(3) @@ LibF :> Shared @@ LibG :> Shared
            @@ L1 :> LinkTo(<<"..", "lib", "g">>) @@ L2 :> LinkTo(<<"l1">>)
            @@ TmpL :> AbsoluteLinkTo(LibF)
Longer == Common @@ L3 :> AbsoluteLinkTo(L2) @@ L4 :> LinkTo(<<"l3">>)
Roots == {Common @@ PkgF :> File(4), Longer @@ PkgF :> File(4) @@ EtcDY :> Fifo,
          Common @@ PkgF :> File(4) @@ L3 :> LinkTo(<<"..", "etc", "a">>), Common}

MCNogoPaths == {Dev, <<"var", "db">>}
MCVdbDir == [p \in {"p", "q"} |-> Pkg]
Ownerships ==
    {[p |-> {EtcA} \cup a, q |-> {LibF, L1} \cup b] :
       a \in {{}, {LibG, Lib}, {L1}, {LibF, EtcD, New}},
       b \in {{}, {LibG}, {Etc, EtcDX, Lib}, {EtcA, L2}}}
      \cup {[p |-> {EtcDX, EtcDY}, q |-> {LibF}]}

-----------------------------------------------------------------------------
(* Lists.                                                                  *)

L(type, name, wild, opts) ==
    [type |-> type, name |-> name, wild |-> wild, glob |-> "*", options |-> opts]
Globbed(line, glob) == [line EXCEPT !.glob = glob]
MCMatches(glob, name) == glob = "l*" => name \in {"l1", "l2", "l3", "l4"}
Option(option, value, wild, valid) ==
    [option |-> option, value |-> value, wild |-> wild, glob |-> "*", valid |-> valid]
Plain(option) == Option(option, None, FALSE, TRUE)
Src(path) == Option("src", path, FALSE, TRUE)
SrcAll(path) == Option("src", path, TRUE, TRUE)
Targ == Option("targ", [absolute |-> TRUE, path |-> LibF], FALSE, TRUE)

MCDevDirSetup == <<L("node", Dev1, FALSE, <<Plain("dev"), Plain("mod")>>)>>
MCDevDirExtend == {[of |-> Dev1, names |-> {Dev2}]}
MCStageMagic == <<L("dir", EtcD, TRUE, <<>>), L("file", LibF, FALSE, <<Plain("absent")>>)>>
MCStandardStageDirs == <<L("dir", Tmp, FALSE, <<>>), L("tbd", New, FALSE, <<Plain("absent")>>)>>

Lines == {L("file", EtcA, FALSE, <<Src(Host)>>), L("file", EtcA, FALSE, <<Plain("mod")>>),
          L("tbd", LibG, FALSE, <<Plain("uid")>>), L("tbd", LibG, FALSE, <<Src(EtcA)>>),
          L("symlink", LibF, FALSE, <<Targ>>), L("symlink", LibF, FALSE, <<>>),
          L("dir", New, FALSE, <<SrcAll(Lib)>>), L("tbd", New, FALSE, <<>>),
          L("omit", LibF, FALSE, <<>>), L("omit", EtcA, FALSE, <<>>), L("omit", Lib, TRUE, <<>>),
          L("file", Lib, TRUE, <<>>), Globbed(L("symlink", Lib, TRUE, <<>>), "l*"),
          L("tbd", LibFX, FALSE, <<Plain("absent")>>),
          L("node", Dev1, FALSE, <<Plain("dev"), Src(Host)>>),
          L("node", LibF, FALSE, <<Src(Host)>>), L("file", Tmp, FALSE, <<Src(<<"host">>)>>)}
Few == {<<>>, <<<<L("omit", EtcA, FALSE, <<>>)>>>>, <<<<L("dir", New, FALSE, <<SrcAll(Lib)>>)>>>>}
Many == {<<<<l, m>>>> : l, m \in Lines} \cup {<<<<l>>, <<L("omit", EtcA, FALSE, <<>>)>>>> : l \in Lines}

Case(roots, owned, lists) ==
    {[root |-> r, owns |-> o, staged |-> {"p"}, options |-> w, userLists |-> u] :
       r \in roots, o \in owned, w \in {{}, {"dev", "vdb"}}, u \in lists}
MCStart == Case(Roots, Ownerships, Few)
             \cup Case({Common @@ PkgF :> File(4)},
                       {[p |-> {EtcA, LibG, Lib}, q |-> {EtcDX, LibF}],
                        [p |-> {EtcA, LibG, LibF, L1}, q |-> {}]}, Many)
=============================================================================
