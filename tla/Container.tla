------------------------------ MODULE Container ------------------------------
(***************************************************************************)
(* The part of the container the probes act on, as they use it through     *)
(* environment.exec: a heredoc redirected into a file.  The shell opens    *)
(* the file first (a protected path or a missing directory stops it there, *)
(* with the file as it was), truncates it, and only then writes, so a      *)
(* write that fails half way leaves neither the old content nor the new.   *)
(***************************************************************************)

\* What a file holds: nothing, what the world put there, all of what the
\* probe writes, or part of it.
Content == {"absent", "world", "payload", "torn"}

\* The outcomes of `cat > file`: the exit status and the content left behind.
Redirect(old, parentExists) ==
    {[rc |-> 1, content |-> old]} \cup
    {r \in {[rc |-> 0, content |-> "payload"], [rc |-> 1, content |-> "torn"]} :
        parentExists}

\* The write half of `cat > script && cd /app && bun run script`: only a
\* script written to its end is run; short of that it is stale, torn or absent.
ScriptWrites(old) ==
    {[ok |-> FALSE, script |-> old], [ok |-> FALSE, script |-> "torn"],
     [ok |-> TRUE, script |-> "fresh"]}

\* `cat >> file`: the lines follow what is there; a failure half way leaves
\* some first part of them.
AppendLines(old, prefixes, lines) ==
    {[rc |-> 1, content |-> old \cup part] : part \in prefixes}
        \cup {[rc |-> 0, content |-> old \cup lines]}
=============================================================================
