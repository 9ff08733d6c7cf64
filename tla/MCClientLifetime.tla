-------------------------- MODULE MCClientLifetime --------------------------
\* Two runs, each lane.
EXTENDS ClientLifetime

AllLanes == NativeLanes \union ContainerLanes
=============================================================================
