CONSTANT Baseline = 7
CONSTANT Boots = 1
CONSTANT Ticks = {7, 9, 14}
CONSTANT PrebuildTicks = {2}
CONSTANT OtherArtefacts = {"none", "big"}
SPECIFICATION Spec
INVARIANT TimeIsMeasured
CHECK_DEADLOCK FALSE
