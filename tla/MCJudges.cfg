CONSTANT Baseline = 7
CONSTANT Boots = 2
CONSTANT Ticks = {7, 9, 14}
CONSTANT PrebuildTicks = {2}
CONSTANT OtherArtefacts = {"none", "big"}
CONSTANT Tests = {"date", "cpu"}
CONSTANT TimeLimit = 20
CONSTANT Times = {0, 9, 10}
CONSTANT Runs = 2
SPECIFICATION JudgesSpec
INVARIANT TypeOK
INVARIANT LogOrdered
INVARIANT OkIsEarned
INVARIANT LatestRunGraded
INVARIANT MeasuredTimeCounts
INVARIANT GroupIsGraded
PROPERTY PointsStand
CHECK_DEADLOCK FALSE
