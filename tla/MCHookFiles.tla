---------------------------- MODULE MCHookFiles ----------------------------
(* The main worktree is /m, the new one /w/a; base_dir is "../w".          *)
EXTENDS HookFiles

MCSegments == {"m", "w", "a", "d", "k", "env", "f", "g", "l", "ro", "s", "x"}
MCOrder == <<"a", "d", "env", "f", "g", "k", "l", "m", "ro", "s", "w", "x">>
MCMainRoot == <<"m">>
MCBaseDir == [up |-> 1, rest |-> <<"w">>]
MCBranch == <<"a">>

File(data) == [Dir(TRUE) EXCEPT !.kind = "file", !.data = data]

\* Two files, one of them in a nested directory that the checkout has as well, a
\* link to a directory, an unreadable file and a read-only directory with a file.
MCFiles == <<>> :> Dir(TRUE)
    @@ <<"m">> :> Dir(TRUE)
    @@ <<"m", "env">> :> File("env")
    @@ <<"m", "d">> :> Dir(TRUE)
    @@ <<"m", "d", "f">> :> File("new")
    @@ <<"m", "d", "k">> :> Dir(TRUE)
    @@ <<"m", "d", "k", "g">> :> File("g")
    @@ <<"m", "l">> :> [Dir(TRUE) EXCEPT !.kind = "link", !.to = <<"m", "d">>]
    @@ <<"m", "s">> :> [File("s") EXCEPT !.read = FALSE]
    @@ <<"m", "ro">> :> Dir(FALSE)
    @@ <<"m", "ro", "x">> :> File("x")
    @@ <<"w">> :> Dir(TRUE)
    @@ <<"w", "a">> :> Dir(TRUE)
    @@ <<"w", "a", "d">> :> Dir(TRUE)
    @@ <<"w", "a", "d", "f">> :> File("old")

None == [kind |-> "none", up |-> 0, rest |-> <<>>]
Rel(path) == [kind |-> "rel", up |-> 0, rest |-> path]
Up(path) == [kind |-> "rel", up |-> 1, rest |-> path]
Abs(path) == [kind |-> "abs", up |-> 0, rest |-> path]
Hook(type, from, to) == [type |-> type, from |-> from, to |-> to, command |-> FALSE]

\* Legal hooks, hooks whose paths lead outside, and hooks that Validate refuses.
MCHooks == {
    Hook("copy", Rel(<<"env">>), None),
    Hook("copy", Rel(<<"d">>), Rel(<<"d">>)),
    Hook("copy", Rel(<<"l">>), Rel(<<"x", "g", "k">>)),
    Hook("copy", Rel(<<>>), Rel(<<"x">>)),
    Hook("copy", Rel(<<"ro">>), None),
    Hook("copy", Abs(<<"w">>), Rel(<<"x">>)),
    Hook("copy", Rel(<<"env">>), Abs(<<"env">>)),
    Hook("copy", Rel(<<"env">>), Up(<<"x">>)),
    Hook("symlink", Rel(<<"d", "k">>), Rel(<<"g", "k">>)),
    Hook("symlink", Abs(<<"m", "env">>), Rel(<<"env">>)),
    Hook("symlink", Up(<<"w">>), Rel(<<"s">>)),
    Hook("copy", Abs(<<"m", "env">>), None),
    Hook("symlink", Rel(<<"env">>), None),
    [Hook("command", None, None) EXCEPT !.command = TRUE]}

MCConfigs == {<<>>} \cup {<<h>> : h \in MCHooks} \cup (MCHooks \X MCHooks)

\* A shared cache inside a directory that is copied.
SharedCache == {<<Hook("symlink", Rel(<<"d", "k">>), Rel(<<"d", "k">>)),
                  Hook("copy", Rel(<<"d">>), Rel(<<"d">>))>>}

MCRemovable == {<<"m", "env">>, <<"m", "d", "k", "g">>}
NotRemovable == {}
=============================================================================
