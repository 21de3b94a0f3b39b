----------------------------- MODULE MCUnpacker -----------------------------
EXTENDS Unpacker

\* A scan that is stopped early, and one of two to three revolutions.
MCMaxFrames == <<2, 8>>
=============================================================================
