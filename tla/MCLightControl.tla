--------------------------- MODULE MCLightControl ---------------------------
(* TLC instances of LightControl: two slots, bit 3 of a mask names none.    *)
EXTENDS LightControl

Command(m, maskA, maskB, timeout) ==
    [mode |-> m, maskA |-> maskA, maskB |-> maskB, colorA |-> "red", colorB |-> "green",
     timeout |-> timeout]

\* The default timeout, one above the maximum, FX above its cap, OFF with a mask.
ClientCommands ==
    {Command("find", {1}, {}, 0), Command("pick", {1, 2}, {2, 3}, 9), Command("fx", {3}, {1}, 3),
     Command("fx", {2}, {}, 1), Command("off", {1}, {2}, 1), Command("unknown", {1}, {}, 1)}

\* A light and nothing else.
OneCommand == {Command("find", {1}, {}, 1)}
=============================================================================
