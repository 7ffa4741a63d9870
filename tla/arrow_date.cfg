SPECIFICATION Spec
CONSTANTS
    CDataTemporal = TRUE
    Kilo = 4
    DaySecs = 6
    Zone <- West
    W8 = 3
    W16 = 4
    W32 = 8
    W64 = 10
    MaxScale = 10
    CancelEvery = 1
    Alignment = 8
    MaxColumns = 2
    Inputs <- AllInputs
    FieldOfHash <- HashToField
    ArrayOf <- ListToArray
    ListOf <- ArrayToList
    ValueOf <- ToQore
    BodyOf <- MessageBody
    NeedsDictionary <- HasDictionary
    ElementTypeOf <- ArrowTypeToBufferElementType
    DescriptorOf <- ArrowFieldToDescriptor
    FieldOf <- DescriptorToField
    ImportsType <- TypeSupportsImport
    ExportsDescriptor <- DescriptorSupportsExport
INVARIANT
    DatesSurvive
CHECK_DEADLOCK FALSE
