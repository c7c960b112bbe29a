---------------------------- MODULE MCMessageRelay ----------------------------
\* Constant values for model checking MessageRelay.
EXTENDS MessageRelay, TLC

CONSTANTS m1, m2

TwoMessages == {m1, m2}

=============================================================================
