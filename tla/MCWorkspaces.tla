---------------------------- MODULE MCWorkspaces ----------------------------
(* Small instances of Workspaces: the repository is /r/main.               *)
EXTENDS Workspaces, TLC

Plain == {"r", "main", "wt", "a", "b", "c", "ext", "default", "origin", "upstream"}

MCAtRemote == [x \in Plain \X {"origin", "upstream"} |-> x[1] \o "@" \o x[2]]

MCSegments == Plain \cup Range(MCAtRemote)

MCMainRoot == <<"r", "main">>

\* "../worktrees", the default, and "..".
MCBaseDefault == [up |-> 1, rest |-> <<"wt">>]
MCBaseParent == [up |-> 1, rest |-> <<>>]

A == <<"a">>
B == <<"b">>
CA == <<"c", "a">>
AB == <<"a", "b">>
OA == <<"origin", "a">>
Ext == <<"ext">>
Main == <<"main">>

PrefixFree == {A, CA}
CB == <<"c", "b">>
Siblings == {CA, CB}
AOrOA == {A, OA}
Shadow == {<<"b", "c">>, <<"c">>}
Nested == {A, AB}

NoRev == {<<>>}
RevA == {<<>>, A, OA}

\* The order of the strings.
MCOrder ==
    LET plain == <<A, AB, B, <<"b", "c">>, <<"c">>, CA, CB, DefaultName, Ext, Main,
                   <<"main", "a">>, OA>>
    IN  plain \o SetToSeq(Names \ Range(plain))
MCRank == [n \in Names |-> CHOOSE i \in DOMAIN MCOrder : MCOrder[i] = n]

NoForeign == <<>>
FarWorkspace == Ext :> <<"ext">>
AOrMain == {A, Main}
AOrMainOrExt == {A, Main, Ext}

InMain == [path |-> MCMainRoot, real |-> TRUE]
InA(real) == [path |-> <<"r", "wt", "a">>, real |-> real]

CwdMain == {InMain}
CwdOrA == {InMain, InA(TRUE)}
CwdOrCA == {InMain, [path |-> <<"r", "wt", "c", "a">>, real |-> TRUE]}
CwdNested == {InMain, InA(TRUE), [path |-> <<"r", "wt", "a", "b">>, real |-> TRUE]}
CwdSibling == {InMain, [path |-> <<"r", "a">>, real |-> TRUE]}
CwdLink == {InMain, InA(FALSE)}
CwdPair == CwdSibling \cup {[path |-> <<"ext">>, real |-> TRUE]}

OnlyA == {A}
NoBranches == {}
OneRemote == {<<A, "origin">>}
RemoteAB == {<<AB, "origin">>}
FetchNone == {}
FetchShared == {{<<CA, "origin">>}, {<<CA, "origin">>, <<CA, "upstream">>}}
TwoRemotes == {<<A, "origin">>, <<CA, "origin">>, <<CA, "upstream">>}

\* The processes differ in nothing but their name.
ProcSymmetry == Permutations(Procs)
=============================================================================
