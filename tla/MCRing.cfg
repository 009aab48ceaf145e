\* Three servers, two points each, in every order and every placement; servers
\* leave the ring and come back.
CONSTANTS
    Servers = {1, 2, 3}
    Space = 4
    POINTS = 2
SPECIFICATION Spec
INVARIANTS LocateIsNearest
PROPERTIES OnlyOwnKeysMove
