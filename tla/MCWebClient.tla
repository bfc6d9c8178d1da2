----------------------------- MODULE MCWebClient ------------------------------
EXTENDS WebClient

\* No pick, a pick within the window and one in the past.
MCPicks == {NoPick, PickedMinutes(10), PickedMinutes(-1)}
===============================================================================
