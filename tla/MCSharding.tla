----------------------------- MODULE MCSharding -----------------------------
\* Instances of the sharded reduction for TLC.
EXTENDS Sharding

Plain(id, file) == [id |-> id, persona |-> "P", file |-> file, size |-> 2, effort |-> 0,
                    capped |-> FALSE, origins |-> {id}, canonical |-> id]

\* Two shards of two, whose findings may need a second level; a component
\* that is cut between two personas, with an effort and a ceiling; one that
\* is cut into single candidates; and a candidate too large for any call.
\* No finding has the number of an original candidate.
MCWorksets == {
    {Plain(11, "f"), Plain(12, "f"), Plain(13, "g"), Plain(14, "g")},
    {[Plain(11, "f") EXCEPT !.effort = 1], Plain(12, "f"),
     [Plain(13, "f") EXCEPT !.persona = "Q", !.capped = TRUE]},
    {Plain(11, "f"), Plain(12, "f"), [Plain(13, "f") EXCEPT !.effort = 1]},
    {[Plain(11, "f") EXCEPT !.size = 7], Plain(12, "g")}}
=============================================================================
