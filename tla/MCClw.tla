--------------------------------- MODULE MCClw ---------------------------------
(***************************************************************************)
(* Commands for model checking clw.  A read is two units, the terminal     *)
(* holds three and the pipe three.                                         *)
(***************************************************************************)
EXTENDS Clw

Com(typed, ops, code, found, name) == [typed |-> typed, ops |-> ops, code |-> code, found |-> found, name |-> name]
All == Programs

\* Every command of up to four reads and writes, in front of a user who types nothing, what fits
\* the terminal, or more
Short == UNION {{Com(typed, ops, 1, {}, "other") : ops \in [1..n -> Ops]} : n \in 0..4, typed \in {0, 2, 5}}

\* More output and errors than are read at once, a dialogue, a filter that prints more than it
\* reads, and daemons that go on with errors
Long == {
  Com(0, <<"out", "out", "out", "out", "out", "out">>, 0, {}, "other"),
  Com(0, <<"err", "out", "err", "err", "out", "err", "out">>, 0, {}, "other"),
  Com(3, <<"out", "in", "in", "out", "in", "out">>, 0, {}, "other"),
  Com(6, <<"out", "out", "out", "out", "out", "in", "in", "in", "in">>, 0, {}, "other"),
  Com(1, <<"out", "leave", "err", "err", "in">>, 0, {}, "other"),
  Com(0, <<"leave", "err", "err", "err", "err", "err", "err">>, 0, {}, "other")
}

\* What is imported, on hosts with more or less on them
Imported ==
  {Com(0, <<"out", "leave", "out">>, 1, found, name) :
     found \in {All, {"ip", "nmdb-import-clw"}, {"env", "nmdb-import-clw"}}, name \in {"nmap", "ping", "other"}}

MCCommands == Short \union Long \union Imported
===============================================================================
