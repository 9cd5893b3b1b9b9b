----------------------------- MODULE MCUpdater -----------------------------
\* Updater for TLC: every answer a server could give, sound answers, or
\* those of a bundle that `wvb remote upload` has put there with remote.integrity set.
EXTENDS Updater, TLC

CONSTANTS v1, o1

\* The bundle as the publisher has written it, and another one.
Published == [content |-> "published", order |-> o1]
Other == [content |-> "other", order |-> o1]

SignedTexts == {Published}

AllResponses == ResponseSet

\* A sound answer, and one for each way in which an answer can be wrong: without
\* the one or the other header, with a bad one, with another body, and with
\* headers that go with that other body.
OneFault ==
    LET r == [integrity |-> Digest(Published), signature |-> SignSignature, body |-> Published]
    IN  {r, [r EXCEPT !.integrity = None], [r EXCEPT !.integrity = MakeIntegrity(Published)],
         [r EXCEPT !.signature = None], [r EXCEPT !.signature = "invalid"], [r EXCEPT !.signature = "bytes"],
         [r EXCEPT !.body = Other], [r EXCEPT !.body = Other, !.integrity = Digest(Other)],
         [r EXCEPT !.body = Other, !.integrity = Digest(Other), !.signature = None]}

\* Configurations in which what is installed has to be signed: the two policies
\* and the two kinds of verifier, each once.  To a sound answer, which announces
\* its integrity, both policies do the same.
Verifying ==
    {[policy |-> "strict", verifier |-> "builtin"], [policy |-> "optional", verifier |-> "custom"]}

DefaultConfig == {[policy |-> "optional", verifier |-> "none"]}

SoundResponses == {[integrity |-> Digest(Published), signature |-> SignSignature, body |-> Published]}

UploadedResponses ==
    {[integrity |-> MakeIntegrity(Published), signature |-> SignSignature, body |-> Published]}

ShippedFirst == [b \in Bundles |-> v1]

Perms == Permutations(Tasks)
=============================================================================
