-------------------------- MODULE MCOpenScheduler --------------------------
EXTENDS OpenScheduler

\* One profile of each shape, rising, falling and going quiet within the window.
Profile(shape, start, peak, ramp, hold) ==
    [shape |-> shape, start |-> start, peak |-> peak, ramp |-> ramp, hold |-> hold]

AllShapes ==
    {Profile("constant", 2, 0, 0, 0), Profile("ramp", 0, 3, 2, 0), Profile("ramp", 3, 1, 4, 0),
     Profile("spike", 1, 2, 1, 1), Profile("spike", 3, 1, 1, 2), Profile("soak", 0, 2, 0, 2)}
=============================================================================
