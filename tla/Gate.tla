-------------------------------- MODULE Gate --------------------------------
(***************************************************************************)
(* The --expected-digest gate (internal/truth/expected.go) and the mapping *)
(* from a verdict to an exit code (cmd/root.go:23-32).                     *)
(*                                                                         *)
(* A flag is a record [container, digest]; digest is Malformed when the    *)
(* value does not have the form container=sha256:<64 hexadecimals>.        *)
(***************************************************************************)
EXTENDS Truth, Sequences

Malformed == "malformed"

FlagValues == [container : Containers, digest : Digests \cup {Malformed}]

Accepted(flags) == \A i \in DOMAIN flags : flags[i].digest # Malformed

\* Seeded fault: the first flag for a container is kept.
LastFor_First(flags, c) ==
  CHOOSE i \in DOMAIN flags :
    /\ flags[i].container = c
    /\ \A j \in DOMAIN flags : flags[j].container = c => j >= i

\* Flags are written to a map in order, so the last one for a container wins.
LastFor(flags, c) ==
  CHOOSE i \in DOMAIN flags :
    /\ flags[i].container = c
    /\ \A j \in DOMAIN flags : flags[j].container = c => j <= i

ParseExpectedDigests(flags) ==
  [c \in {flags[i].container : i \in DOMAIN flags} |-> flags[LastFor(flags, c)].digest]

-----------------------------------------------------------------------------

\* The observations the gate looks at: normal containers that are expected.
Gated(res, expected) ==
  {o \in res.observations : o.kind = "container" /\ o.container \in DOMAIN expected}

Established(o) == DigestOf(o.value) # NoDigest

Contradicted(res, expected) ==
  { o \in Gated(res, expected) :
      Established(o) /\ DigestOf(o.value) # expected[o.container] }

Unestablished(res, expected) == {o \in Gated(res, expected) : ~Established(o)}

NeverSeen(res, expected) ==
  {c \in DOMAIN expected : \A o \in Gated(res, expected) : o.container # c}

GatedReason(o, res, expected) ==
  CASE o \in Contradicted(res, expected)                -> "EXPECTED_DIGEST_MISMATCH"
    [] o \in Gated(res, expected)
         \ (Contradicted(res, expected) \cup Unestablished(res, expected))
                                                        -> "EXPECTED_DIGEST_MATCH"
    [] OTHER                                            -> o.reason

\* Seeded fault: the gate decides alone.
GatedStatus_Alone(res, expected) ==
  IF Contradicted(res, expected) # {} \/ NeverSeen(res, expected) # {} THEN "PARTIAL"
  ELSE IF Unestablished(res, expected) # {} THEN "UNKNOWN"
  ELSE "MATCH"

\* Seeded fault: the status of a finding is given to the whole result.
GatedStatus_Mismatch(res, expected) ==
  IF Contradicted(res, expected) # {} \/ NeverSeen(res, expected) # {} THEN "MISMATCH"
  ELSE IF Unestablished(res, expected) # {} THEN "UNKNOWN"
  ELSE res.status

\* A contradiction outranks everything; a digest that is not established
\* replaces whatever status the verification had.
GatedStatus(res, expected) ==
  IF Contradicted(res, expected) # {} \/ NeverSeen(res, expected) # {} THEN "PARTIAL"
  ELSE IF Unestablished(res, expected) # {} THEN "UNKNOWN"
  ELSE res.status

ApplyExpectedDigests(res, expected) ==
  IF DOMAIN expected = {} THEN res
  ELSE
    [res EXCEPT
       !.status = GatedStatus(res, expected),
       !.observations =
          {[o EXCEPT !.reason = GatedReason(o, res, expected)] : o \in res.observations},
       !.findings =
          res.findings
          \cup { Finding("EXPECTED_DIGEST_MISMATCH", "MISMATCH", o.pod, o.container)
                 : o \in Contradicted(res, expected) }
          \cup { Finding("EXPECTED_CONTAINER_MISSING", "MISMATCH", None, c)
                 : c \in NeverSeen(res, expected) }]

-----------------------------------------------------------------------------

exitForStatus(status) ==
  CASE status = "MATCH"                            -> 0
    [] status \in {"PARTIAL", "MISMATCH", "STALE"} -> 2
    [] OTHER                                       -> 3

\* Execute: any error that is not a verdict.
OperationalError == 1

NoExit == 99  \* while a command runs

\* What the exit code tells the caller.
AnswerOf(code) ==
  CASE code = NoExit -> "none"
    [] code = 0      -> "match"
    [] code = 2      -> "drift"
    [] code = 3      -> "unknown"
    [] OTHER         -> "error"
=============================================================================
