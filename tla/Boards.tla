------------------------------- MODULE Boards -------------------------------
(***************************************************************************)
(* include/known_boards.h: what the registration of a board leaves in its  *)
(* struct board and struct cs_devices_t, and how the registered devices    *)
(* are connected. Addresses, cross triggers and affinities are left out.   *)
(***************************************************************************)
EXTENDS Integers, FiniteSets

(* The devices whose state the program changes. Both the ETR of the        *)
(* ZCU-104 and the ETB of the ZYNQ-7000 are devices->etb, here "etr".      *)
Fifos   == {"etf1", "etf2"}
Devices == {"ptm0", "ptm1", "ptm2", "ptm3", "stm", "etr", "tpiu"} \cup Fifos

(* Mutant: num_trace_sinks counts the first ETF only.                      *)
Zcu104OneSink ==
  [ptm |-> <<"ptm0", "ptm1", "ptm2", "ptm3">>, trace_sinks |-> <<"etf1">>,
   etmv4 |-> TRUE,
   atb |-> {<<"ptm0", "funnel1">>, <<"ptm1", "funnel1">>,
            <<"ptm2", "funnel1">>, <<"ptm3", "funnel1">>,
            <<"funnel1", "etf1">>, <<"stm", "funnel2">>,
            <<"etf1", "funnel2">>, <<"funnel2", "etf2">>, <<"etf2", "rep">>,
            <<"rep", "etr">>, <<"rep", "tpiu">>}]

(* do_registration_zcu104: the ETMs of the four Cortex-A53, the two ETFs   *)
(* in devices->trace_sinks, and the connections given to cs_atb_register.  *)
Zcu104 ==
  [ptm |-> <<"ptm0", "ptm1", "ptm2", "ptm3">>,
   trace_sinks |-> <<"etf1", "etf2">>,
   etmv4 |-> TRUE,
   atb |-> {<<"ptm0", "funnel1">>, <<"ptm1", "funnel1">>,
            <<"ptm2", "funnel1">>, <<"ptm3", "funnel1">>,
            <<"funnel1", "etf1">>, <<"stm", "funnel2">>,
            <<"etf1", "funnel2">>, <<"funnel2", "etf2">>, <<"etf2", "rep">>,
            <<"rep", "etr">>, <<"rep", "tpiu">>}]

(* do_registration_zynq7000: the PTMs of two Cortex-A9, which are not      *)
(* ETMv4, and no ETF. devices->itm is not set.                             *)
Zynq7000 ==
  [ptm |-> <<"ptm0", "ptm1">>, trace_sinks |-> <<>>,
   etmv4 |-> FALSE,
   atb |-> {<<"ptm0", "funnel">>, <<"ptm1", "funnel">>, <<"funnel", "rep">>,
            <<"rep", "tpiu">>, <<"rep", "etr">>}]

(* known_boards, by the name that --board gives.                           *)
KnownBoards == [ZCU104 |-> Zcu104, ZYNQ7000 |-> Zynq7000]

(* The devices that trace of device d gets to on board b.                  *)
Downstream(b, d) ==
  LET reached[n \in 0..Cardinality(b.atb)] ==
        IF n = 0 THEN {d}
        ELSE LET r == reached[n - 1] IN r \cup {l[2] : l \in {k \in b.atb : k[1] \in r}}
  IN reached[Cardinality(b.atb)]

(* The ETFs between device d and the main buffer of board b.               *)
FifosBehind(b, d) ==
  {f \in Fifos : f \in Downstream(b, d) /\ "etr" \in Downstream(b, f)}
============================================================================
