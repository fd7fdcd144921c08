SPECIFICATION Spec
CONSTANTS
  k1 = k1
  k2 = k2
  Callers = {"sdk", "cli"}
  Images = {k1, k2}
  NumShots = 2
  Keyframe <- MCKeyframe
  Story = Story
  Contents <- MCContents
  None = None
INVARIANTS TypeOK CompleteIsWhole VideoOfKeyframe CountsNeverMiss
PROPERTY Announced
