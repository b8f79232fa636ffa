------------------------------ MODULE MCPktServer ------------------------------
EXTENDS PktServer, TLC

MCMaxPackets == <<3, 2>>

\* Two real elements of one byte and a complex one of two bytes each.
MCTransitions ==
  <<[dtSize |-> 1, complex |-> FALSE, nEls |-> 2], [dtSize |-> 2, complex |-> TRUE, nEls |-> 2]>>

Plain(k) == [kind |-> k, size |-> 0, params |-> <<>>]

SetParams ==
  [kind |-> "setParam", size |-> 2,
   params |-> <<[b |-> 1, s |-> 1, w |-> 1, value |-> 1], [b |-> 2, s |-> 0, w |-> 1, value |-> 1]>>]

SelectSignals == [kind |-> "select", size |-> 1, params |-> <<>>]

MCHostPackets ==
  {SetParams, SelectSignals}
    \cup {Plain(k) : k \in {"getParams", "stop", "disconnect", "disconnectNoUpload"}}
===============================================================================
