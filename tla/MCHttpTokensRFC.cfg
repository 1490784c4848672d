\* The token table against the RFC 2616 grammar its comment quotes.
SPECIFICATION Spec
INVARIANT TokenTableIsRFC2616
