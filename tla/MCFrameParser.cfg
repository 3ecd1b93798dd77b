\* Payloads of up to two bytes; the lengths 0, 2 and 3 and both magic bytes
\* occur anywhere.
CONSTANTS
  EXLINK_MAX_PAYLOAD = 2
  Alphabet = {0, 2, 3, 75, 76}
SPECIFICATION Spec
INVARIANTS TypeOK RoundTrip Flushable
PROPERTIES ScannerImplemented
