SPECIFICATION Spec
CONSTANTS
    Names = {"lint", "Lint"}
    Contents = {"old", "new"}
    Requests = {"api", "push"}
    Pusher = "push"
    None = None
    Half = Half
    Stump = Stump
    Cut = Cut
    MaxDisturbances = 1
    Folded <- MCFolded
    Archives <- MCArchives
    Local <- MCLocal
    Shape <- MCShape
INVARIANT SyncTypeOK
INVARIANT InstalledSkillsSurvive
INVARIANT StartSweepsLeftovers
INVARIANT SequentialStatusIsTrue
INVARIANT PushSparesDiverged
