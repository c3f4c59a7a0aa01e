------------------------------- MODULE MCRvps -------------------------------
(* Instances of Rvps. *)
EXTENDS Rvps

CONSTANTS c1, c2, n1, n2, v1, v2

Msg(version, type, payload) ==
    [version |-> version, type |-> type, payload |-> payload,
     malformed |-> FALSE]

\* Two messages that store, one of them two values, the other two digests of
\* three and nothing for n1, one that stores nothing and three that are refused.
AllMessages ==
    { Msg("0.1.0", "sample", [n \in {n1, n2} |-> v1]),
      Msg("0.1.0", "swid", << [name |-> n1, hashes |-> <<Zero>>],
                              [name |-> n2, hashes |-> <<v2, Zero, v1>>] >>),
      Msg("0.1.0", "in-toto", <<>>),
      Msg("other", "sample", [n \in {n1} |-> v2]),
      Msg("0.1.0", "unknown", <<>>),
      [Msg("0.1.0", "swid", <<>>) EXCEPT !.malformed = TRUE] }

\* Two that store one value each.
StoringMessages ==
    { Msg("0.1.0", "sample", [n \in {n1} |-> v1]),
      Msg("0.1.0", "sample", [n \in {n2} |-> v2]) }

Deploy(backend, faults, messages, maxTime) ==
    [backend |-> backend, faults |-> faults, messages |-> messages,
     maxTime |-> maxTime]

\* Both storages where everything may go wrong, JSON where nothing does.
MCDeployments ==
    { Deploy("LocalFs", {"cancel", "crash", "io"}, AllMessages, 1),
      Deploy("LocalJson", {}, AllMessages, 0),
      Deploy("LocalJson", {"cancel", "crash", "io"}, StoringMessages, 0) }
=============================================================================
