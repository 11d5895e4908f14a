----------------------------- MODULE MCHistory -----------------------------
(***************************************************************************)
(* Two markets.  The tape of market 1 has two pages that overlap; the      *)
(* cursor of market 2 never ends and its one trade does not decode.        *)
(***************************************************************************)
EXTENDS Backfill

MCTickers == {1, 2}
MCClose == <<1, 2>>
Page(trades, next) == [trades |-> trades, next |-> next]
MCPages == << <<Page(<<1, 2>>, 2), Page(<<2, 3>>, 0)>>, <<Page(<<4>>, 1)>> >>
MCMalformed == {4}
MCHighVolume == {2}
MCGiven == {<<1, 1>>}

Live(id) == [kind |-> "live", s |-> id]
MCLiveLogs == {<< <<>>, <<>> >>, << <<Live(1), Live(2)>>, <<Live(4)>> >>}

\* Trade 3, which no live capture has, was executed while the live print of
\* trade 2 was under way.
MCEventTs == <<10, 20, 30, 40>>
MCRecvTs == <<12, 35, 36, 41>>
=============================================================================
