\* Two serial transactions, each offering no Upgrade, h2c, spdy/3, a
\* non-native protocol, or junk before h2c ("blarf, h2c"); the server's
\* 101 names no protocol, a native one, the non-native one or an unknown
\* one.  Windows are scaled from HTTPUpstreamRecvStreamTest's
\* {100000, 105000, 110000} against the default of 65535 to {4, 5, 6}
\* against 3, keeping their order.
CONSTANTS
  MaxTxns = 2
  Native = {"h2c", "spdy/3"}
  Offers = {{}, {"h2c"}, {"spdy/3"}, {"http/2.0"}, {"blarf", "h2c"}}
  RespUpgrade = {"none", "h2c", "spdy/3", "http/2.0", "blarf"}
  DefaultWindow = 3
  FlowControl <- MCFlowControl
  Max1xx = 2

SPECIFICATION Spec

INVARIANTS
  UpgradedWindowsMatchConfig
  SwitchOnlyOnFirstNativeOffer
  

PROPERTY
  ExchangeRefined

\* The session goes idle once its bounded transactions have their answers.
CHECK_DEADLOCK FALSE
