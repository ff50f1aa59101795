---------------------------- MODULE Fingerprint ----------------------------
(***************************************************************************)
(* packages/shared/src/utils/fingerprint.ts: which events are occurrences  *)
(* of one failure. A message is the sequence of its words, each with the   *)
(* first of the patterns of normalizeMessage that matches it and its text  *)
(* in lower case; white space is left out. A number of eight digits or     *)
(* more is "hash", a shorter one "n". The digest is left out: a            *)
(* fingerprint is what is digested, so two of them never collide.          *)
(***************************************************************************)
EXTENDS Sequences

Patterns == {"uuid", "hash", "id", "n"}

FingerprintInput == {"service", "eventType", "environment", "severity", "message"}

\* What a pattern matches is replaced by its name.
NormalizeMessage(message) ==
  [i \in DOMAIN message |->
     IF message[i].pattern \in Patterns THEN message[i].pattern ELSE message[i].text]

CalculateFingerprint(input) ==
  <<input.service, input.eventType, input.environment, input.severity,
    NormalizeMessage(input.message)>>

\* The other fields of an event do not count.
CreateFingerprintFromEvent(event) ==
  CalculateFingerprint([f \in FingerprintInput |-> event[f]])
=============================================================================
