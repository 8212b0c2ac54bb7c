----------------------------- MODULE MCFido2Pin -----------------------------
EXTENDS Fido2Pin

CONSTANTS a, b

MCPins == {a, b}
=============================================================================
