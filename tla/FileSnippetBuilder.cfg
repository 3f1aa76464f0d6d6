CONSTANTS
    a = a
    b = b
    Window = 50
    Names = {a, b}
    Lengths <- Sizes
    MaxLine = 1000
    Events <- SampleEvents
    NoFile = NoFile
    Text = Text
SPECIFICATION Spec
INVARIANTS TypeOK WindowFits
PROPERTY TooLargeIsNoReference
