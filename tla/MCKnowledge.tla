------------------------------ MODULE MCKnowledge ------------------------------
(* Small instances of Knowledge. *)
EXTENDS Knowledge

CONSTANTS repo, main, q1, q2

\* An event that says nothing, to be filled in.
Blank == [trust |-> "system", status |-> None, exit |-> None, repo |-> repo, worktree |-> "w",
          branch |-> None, parent |-> None, binding |-> None, operation |-> None,
          command |-> FALSE, internal |-> FALSE, text |-> "none", created |-> FALSE,
          commit |-> None, files |-> {}, detail |-> FALSE, issues |-> {}, pullRequests |-> {},
          signatures |-> {}, tokens |-> {}, words |-> {}]
Saying(expected) == [ambiguous |-> FALSE, violated |-> "v", expected |-> expected,
                     trigger |-> {"t"}, scope |-> None, scopeId |-> None,
                     taskFamily |-> None, subsystem |-> None]

Correction(i, s, expected) ==
    [id |-> i, session |-> s, type |-> "user.corrected", trust |-> "user", text |-> "meaningful",
     says |-> Saying(expected)] @@ Blank
Operation(i, s) ==
    [id |-> i, session |-> s, type |-> "tool.started", parent |-> i - 1, operation |-> i,
     command |-> TRUE, detail |-> TRUE, says |-> Saying(None)] @@ Blank
Check(i, s, status) ==
    [id |-> i, session |-> s, type |-> "test.completed", status |-> status, operation |-> i - 1,
     binding |-> [correction |-> i - 2, operation |-> i - 1], says |-> Saying(None)] @@ Blank
Request(i, s, branch, tokens) ==
    [id |-> i, session |-> s, type |-> "prompt.submitted", trust |-> "user", text |-> "meaningful",
     branch |-> branch, tokens |-> tokens, words |-> {"t"}, says |-> Saying(None)] @@ Blank
Changed(i, s, files) ==
    [id |-> i, session |-> s, type |-> "file.changed", files |-> files, says |-> Saying(None)]
    @@ Blank

Committed(i, s, commit) ==
    [id |-> i, session |-> s, type |-> "git.commit", created |-> TRUE, commit |-> commit,
     says |-> Saying(None)] @@ Blank

\* A correction and its proof, one after the other or as one.
Proof(i, s, expected) ==
    <<Correction(i, s, expected), Operation(i + 1, s), Check(i + 2, s, "succeeded")>>

Ask(s) == [session |-> s, repo |-> repo, branch |-> None]

\* A correction that is proved, and made and proved again while it may be recalled.
Recurring ==
    [turns |-> << <<Proof(10, 1, "A"), <<Correction(20, 1, "A")>>,
                    <<Operation(21, 1), Check(22, 1, "succeeded")>> >> >>,
     gaps |-> {1}, asks |-> {Ask(1), Ask(2)}, decides |-> {}, decided |-> 0,
     judges |-> {}, remembers |-> {}, said |-> 0]

\* A correction that is proved, and all that may be said of it.
Contested ==
    [turns |-> << <<Proof(10, 1, "A")>> >>,
     gaps |-> {1}, asks |-> {Ask(1), Ask(2)}, decides |-> {}, decided |-> 0,
     judges |-> {"user"} \X {"wrong", "confirm", "stale", "helpful", "mute_session"}
                \cup {<<"analyzer", "wrong">>},
     remembers |-> {}, said |-> 2]

\* The same of a rule that the user has stated.
Remembered == [Contested EXCEPT !.turns = << <<>> >>, !.remembers = {"B"}]

\* Sessions that share a branch, files or the words of their prompts.
Session(s, branch, files, tokens) ==
    << <<Request(10 * s, s, branch, tokens), Changed(10 * s + 1, s, files)>> >>
Committing(s, commit, files) ==
    << <<Changed(10 * s, s, files), Committed(10 * s + 1, s, commit)>> >>
Grouped(first, second, third) ==
    [turns |-> <<first, second, third>>,
     gaps |-> {10, 400, 1500}, asks |-> {}, decides |-> Pairs(1..3), decided |-> 1,
     judges |-> {}, remembers |-> {}, said |-> 0]
Groups ==
    {Grouped(Session(1, main, {"f"}, {"a", "b"}), Session(2, main, {"f", "g"}, {"b", "c"}), third) :
       third \in {Session(3, main, {"g"}, {"c"}), Session(3, None, {"f", "g"}, {"a"})}}
    \cup {Grouped(Committing(1, "c", {"f", "g"}), Committing(2, "d", {"f"}), Committing(3, "d", {"g"}))}

InstanceScripts == {Recurring, Contested, Remembered} \cup Groups

\* A correction, another of the same topic, and the first again.
Versions == [Recurring EXCEPT !.turns = << <<Proof(10, 1, "A"), Proof(20, 1, "B"), Proof(30, 1, "A")>> >>,
                              !.asks = {}]
VersionScripts == {Versions}

InstanceProximity == << <<30, 650>>, <<120, 550>>, <<360, 400>>, <<1440, 250>> >>
Symmetric == Permutations(Requests)
InstanceAncestor(c, d) == c = "c" /\ d = "d"
InstanceBefore(k, l) == k.expected = "A"
===============================================================================
