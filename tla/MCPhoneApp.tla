------------------------------ MODULE MCPhoneApp ------------------------------
EXTENDS PhoneApp

OneText == {"continue"}

\* Two messages, the second with the words of the first and while its answer is still
\* coming; or one message after a turn or none, a break of the stream and a lost cursor.
TwoSendsOrFaults ==
  {[sends |-> 2, breaks |-> 0, resets |-> 0, listings |-> {"own"},
    answers |-> << <<"a">>, <<"c">> >>],
   [sends |-> 1, breaks |-> 1, resets |-> 1, listings |-> {"same", "own"},
    answers |-> << <<"a", "b">>, <<"c">> >>]}
=============================================================================
