----------------------------- MODULE MCNumerals -----------------------------
EXTENDS Numerals

\* Ints of eight bits and addresses of twelve: numbers of one to three digits.
MCIntSize == 256
MCAddressSize == 4096
=============================================================================
