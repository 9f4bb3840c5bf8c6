---------------------------------- MODULE Fee ----------------------------------
(****************************************************************************)
(* The parking fee, computed twice: by calc_fee of rpi/iot_client_sql.c for *)
(* the display at the gate, and by the query of web/car_info.php for the    *)
(* owner.  Both take the seconds since the car entered.                     *)
(****************************************************************************)
EXTENDS Integers

Cap == 40000
Rate == 1000
IntMax == 2147483647    \* INT_MAX of the C build; SQL computes in BIGINT
Day == 86400

\* From this stay on (some 4085 years) calc_fee's int product overflows.
Defined(sec) == sec < 60 * (IntMax \div Rate + 1)

\* (int)(diff_min) * 1000, after the test for a clock that is behind the row.
CalcFee(sec) ==
    LET fee == (sec \div 60) * Rate
    IN  IF sec <= 0 THEN 0 ELSE IF fee > Cap THEN Cap ELSE fee

\* CASE WHEN >= 86400 THEN 40000 ELSE LEAST(FLOOR(GREATEST(sec, 0) / 60) * 1000, 40000)
WebFee(sec) ==
    LET least(a, b) == IF a < b THEN a ELSE b
        greatest(a, b) == IF a > b THEN a ELSE b
    IN  IF sec >= Day THEN Cap ELSE least((greatest(sec, 0) \div 60) * Rate, Cap)

-----------------------------------------------------------------------------
(* Mutants. *)

\* calc_fee without its cap.
CalcFee_NoCap(sec) == IF sec <= 0 THEN 0 ELSE (sec \div 60) * Rate

\* calc_fee charges the minute that has begun.
CalcFee_RoundsUp(sec) ==
    LET fee == ((sec + 59) \div 60) * Rate
    IN  IF sec <= 0 THEN 0 ELSE IF fee > Cap THEN Cap ELSE fee
=============================================================================
