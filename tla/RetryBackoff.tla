---------------------------- MODULE RetryBackoff ----------------------------
(***************************************************************************)
(* The arithmetic of CdcRetryController on words 0 .. MaxWord: its         *)
(* constructor's normalisation of the limits, bounded_backoff's doubling   *)
(* loop and saturating_add.                                                *)
(***************************************************************************)
EXTENDS Naturals

CONSTANT MaxWord   \* UINT64_MAX in the code

Words == 0 .. MaxWord
Wrap(n) == n % (MaxWord + 1)

FirstDelay(initial) == IF initial = 0 THEN 1 ELSE initial
LargestDelay(initial, maximum) ==
    IF maximum < FirstDelay(initial) THEN FirstDelay(initial) ELSE maximum

DoubledWrapping(delay, largest) == Wrap(delay * 2)
\* One pass of the loop body; the test keeps delay * 2 within the word.
Doubled(delay, largest) == IF delay > largest - delay THEN largest ELSE Wrap(delay * 2)

BoundedBackoff(initial, maximum, retries) ==
    LET largest == LargestDelay(initial, maximum)
        delay[k \in 0 .. retries] ==
            IF k = 0 THEN FirstDelay(initial)
            ELSE IF delay[k - 1] < largest THEN Doubled(delay[k - 1], largest)
                                           ELSE delay[k - 1]
    IN  IF delay[retries] > largest THEN largest ELSE delay[retries]

SaturatingAdd(left, right) ==
    IF right > MaxWord - left THEN MaxWord ELSE Wrap(left + right)
=============================================================================
