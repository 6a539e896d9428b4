---------------------------- MODULE MCWebTabs ----------------------------
(* A small instance of WebTabs: one drop-down, one tag field, three files. *)
EXTENDS WebTabs, TLC

CONSTANTS cluster, users, o1, o2, good, bad

MCChoices == {cluster}
MCOptions == {o1, o2}
MCOffered == {o1}
MCTagFields == {users}
MCTags == {good, bad}
MCValidTags == {good}

\* A file with a tag that does not match, one with an option that is not offered and
\* nothing for the tag field, one with an empty list for it and then a value that makes
\* the handler throw.
File(option, texts_, text, reads, throws) ==
  [choice |-> cluster :> option, tags |-> users :> texts_, justification |-> text,
   reads |-> reads, throws |-> throws]
MCFiles == {File(o1, {good, bad}, "short", {users}, FALSE),
            File(o2, None, "long", {users}, FALSE),
            File(None, {}, "absent", {users}, TRUE)}
=============================================================================
