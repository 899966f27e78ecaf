\* Small texts and timestamps of 2 bits and 2 bits; MaxTlv, DescriptionSize,
\* ErrorTextSize, NameSize and the ranges stand for 20, 128, 50, 10, 2^32, 2^16;
\* HmacSize and PlainSize for 16 and 64.
SPECIFICATION AuthSpec
CONSTANTS
  MaxTlv = 4
  DescriptionSize = 4
  ErrorTextSize = 4
  NameSize = 3
  Room <- Rooms
  TextLength <- TextLengths
  Time <- Times
  Second = 10
  LowRange = 4
  HighRange = 4
  HmacSize = 3
  DigestSize = 4
  PlainSize = 5
  DeniedText = 3
  Mark = 84
  Entry <- Entries
CONSTRAINT Scope
INVARIANTS
  PacketAligned
  RefusedForAReason
  OwnMessagesDecode
  RoundTrip
  AuthenticationDecides
  RepliesVerify
\* A message is encoded and decoded, and that is the end of it.
CHECK_DEADLOCK FALSE
