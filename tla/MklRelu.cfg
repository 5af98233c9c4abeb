\* The bottom keeps the layout and shape of the first call, as the lazy
\* creation assumes: prv data in one of two MKL layouts or cpu data, two
\* shapes; training and testing iterations in any mix.  The Net may stop
\* after any iteration.
SPECIFICATION Spec
CONSTANTS
    Shapes = {"s1", "s2"}
    IntLayouts = {"mkl1", "mkl2"}
    Varying = {}
    MaxIters = 3
INVARIANT ExecutionsConsistent
CHECK_DEADLOCK FALSE
